---- MODULE Spec2Model ----
(***************************************************************************)
(* A model of tangerine: the tokenizer (src/src/parse.rs), the three       *)
(* partitions of the index store (src/src/store.rs) and the query engine   *)
(* (src/src/index.rs).                                                     *)
(*                                                                         *)
(* Strings are sequences of bytes (a term, a key) or of code points (a     *)
(* text to tokenize); a partition is a function from keys to values, its   *)
(* scan order is the byte-lexicographic order of the keys.                 *)
(***************************************************************************)
EXTENDS Integers, Sequences, FiniteSets, TLC

VARIABLES
    term_store,          \* IndexStore.term_store.db: key bytes -> value entries
    document_store,      \* IndexStore.document_store.db
    posting_list_store,  \* IndexStore.posting_list_store.db
    pc,                  \* where the search is: "idle", "loop", "done", "error"
    terms,               \* search: the query terms
    max_docs,            \* search: max_docs
    term_data,           \* search: the TermData looked up for each term
    postings,            \* search: one peekable iterator per term (the items left)
    top_docs,            \* search: the priority queue, a set of <<doc, priority>>
    score_calls,         \* the arguments of every Scorer::score call, in call order
    results,             \* search: the returned Vec<DocumentId>
    search_error,        \* search: the returned Err, <<>> while there is none
    got,                 \* the items collected from the last PostingListStore::get
    put_log,             \* the (term, doc, data) of every PostingListStore::put made
    text,                \* parse_text: the input text, a sequence of code points
    tokens,              \* TestIndex.tokens: the tokens process_token received
    parsed,              \* whether parse_text has run on text
    next_id,             \* DocumentStore: the next DocumentId new_id hands out
    added,               \* the last add_document call: its id, inputs and outcome
    add_log,             \* every add_document call made, in call order
    partitions,          \* Keyspace: the names of the partitions that were opened
    record_log,          \* the (store, key, data) of every TermStore / DocumentStore put
    record_got,          \* the last TermStore / DocumentStore get: store, key, result
    keys_made,           \* the make_posting_list_key calls made: term, doc, key, parsed back
    key_parsed,          \* the last parse_posting_list_key call on a stored key
    finalizing,          \* the DocProcessor::finalize call in progress, <<>> if none
    write_log,           \* the (store, key) of every put finalize has issued
    searchers            \* the locals of each of the search calls that run side by side

vars == <<term_store, document_store, posting_list_store, pc, terms, max_docs,
          term_data, postings, top_docs, score_calls, results, got, put_log,
          text, tokens, parsed, next_id, added, search_error,
          partitions, record_log, record_got, add_log, keys_made, key_parsed,
          finalizing, write_log, searchers>>

store_vars == <<term_store, document_store, posting_list_store>>
search_vars == <<pc, terms, max_docs, term_data, postings, top_docs, score_calls, results,
                 search_error>>
get_vars == <<got, put_log>>
parse_vars == <<text, tokens, parsed>>
index_vars == <<next_id, added, add_log>>
record_vars == <<partitions, record_log, record_got>>
key_vars == <<keys_made, key_parsed>>
finalize_vars == <<finalizing, write_log>>
concurrent_vars == <<searchers>>

\* the threads that call search side by side
Searchers == {1, 2}

\* a thread that has not called search
Searcher_idle ==
    [pc |-> "idle", terms |-> <<>>, max_docs |-> 0, term_data |-> <<>>,
     postings |-> <<>>, top_docs |-> {}, results |-> <<>>]

(***************************************************************************)
(* Bounds of the model.                                                    *)
(***************************************************************************)
MaxEntries == 4
MaxQueryLen == 2
MaxMaxDocs == 2
MaxPuts == 3
MaxTextLen == 5

(***************************************************************************)
(* Input domains.                                                          *)
(***************************************************************************)
\* "a" and "b"
SearchTerms == {<<97>>, <<98>>}
\* 256 has a low byte smaller than that of 1 and 2: byte order matters
DocIds == {1, 2, 256}
\* 16777217 = 2^24 + 1 is not representable in an f32
Lengths == {16777217}
\* "/"
Paths == {<<47>>}

Min(a, b) == IF a < b THEN a ELSE b

(***************************************************************************)
(* Records and their field-tagged encoding (#[id(n)] of each field).       *)
(***************************************************************************)
DocumentData_default == [path |-> <<>>, length |-> 0]
\* a TermData default that counts one occurrence
TermData_default_one == [count |-> 1, document_count |-> 0]
TermData_default == [count |-> 0, document_count |-> 0]
DocumentTermData_default == [body_count |-> 0, path_count |-> 0]

\* a value is a sequence of <<field id, field value>> entries
DocumentData_serialize(d) == << <<0, d.path>>, <<1, d.length>> >>
TermData_serialize(d) == << <<0, d.count>>, <<1, d.document_count>> >>
DocumentTermData_serialize(d) == << <<0, d.body_count>>, <<1, d.path_count>> >>

RECURSIVE DocumentData_deserialize(_, _)
DocumentData_deserialize(value, acc) ==
    IF value = <<>> THEN acc
    ELSE LET e == Head(value)
             nxt == IF e[1] = 0 THEN [acc EXCEPT !.path = e[2]]
                    ELSE IF e[1] = 1 THEN [acc EXCEPT !.length = e[2]]
                    ELSE acc
         IN DocumentData_deserialize(Tail(value), nxt)

RECURSIVE TermData_deserialize(_, _)
TermData_deserialize(value, acc) ==
    IF value = <<>> THEN acc
    ELSE LET e == Head(value)
             nxt == IF e[1] = 0 THEN [acc EXCEPT !.count = e[2]]
                    ELSE IF e[1] = 1 THEN [acc EXCEPT !.document_count = e[2]]
                    ELSE acc
         IN TermData_deserialize(Tail(value), nxt)

RECURSIVE DocumentTermData_deserialize(_, _)
DocumentTermData_deserialize(value, acc) ==
    IF value = <<>> THEN acc
    ELSE LET e == Head(value)
             nxt == IF e[1] = 0 THEN [acc EXCEPT !.body_count = e[2]]
                    ELSE IF e[1] = 1 THEN [acc EXCEPT !.path_count = e[2]]
                    ELSE acc
         IN DocumentTermData_deserialize(Tail(value), nxt)

DocumentData_try_from(value) == DocumentData_deserialize(value, DocumentData_default)
TermData_try_from(value) == TermData_deserialize(value, TermData_default)
DocumentTermData_try_from(value) ==
    DocumentTermData_deserialize(value, DocumentTermData_default)

(***************************************************************************)
(* The ordered key-value partition.                                        *)
(***************************************************************************)
\* a < b in byte-lexicographic order: at the first index where they differ a
\* has the smaller byte, or a is a proper prefix of b
LexLess(a, b) ==
    \E i \in 1..(Min(Len(a), Len(b)) + 1) :
        /\ \A j \in 1..(i - 1) : a[j] = b[j]
        /\ IF i > Len(a) THEN i <= Len(b)
           ELSE i <= Len(b) /\ a[i] < b[i]

HasPrefix(key, prefix) ==
    /\ Len(key) >= Len(prefix)
    /\ SubSeq(key, 1, Len(prefix)) = prefix

\* insert that keeps the value of a key that is present
Partition_insert_keep(db, key, value) ==
    [k \in DOMAIN db \cup {key} |-> IF k \in DOMAIN db THEN db[k] ELSE value]

Partition_insert(db, key, value) ==
    [k \in DOMAIN db \cup {key} |-> IF k = key THEN value ELSE db[k]]

\* Some(value) is <<value>>, None is <<>>
Partition_get(db, key) == IF key \in DOMAIN db THEN <<db[key]>> ELSE <<>>

RECURSIVE SortedKeys(_)
SortedKeys(keys) ==
    IF keys = {} THEN <<>>
    ELSE LET first == CHOOSE k \in keys : \A o \in keys : o = k \/ LexLess(k, o)
         IN <<first>> \o SortedKeys(keys \ {first})

\* the <<key, value>> pairs whose key starts with prefix, in ascending key order
Partition_prefix(db, prefix) ==
    LET keys == SortedKeys({k \in DOMAIN db : HasPrefix(k, prefix)})
    IN [i \in 1..Len(keys) |-> <<keys[i], db[keys[i]]>>]

(***************************************************************************)
(* The key codec.                                                          *)
(***************************************************************************)
\* the 16 bytes of doc with the least significant byte before the one above it
to_be_bytes_low_swapped(doc) ==
    [i \in 1..16 |-> IF i = 15 THEN doc % 256
                     ELSE IF i = 16 THEN (doc \div 256) % 256
                     ELSE IF i < 13 THEN 0
                     ELSE (doc \div (256 ^ (16 - i))) % 256]

\* u128::to_be_bytes: the 16 bytes of doc, the most significant first (a doc
\* id of the model is below 2^32, so its first twelve bytes are 0)
to_be_bytes(doc) ==
    [i \in 1..16 |-> IF i <= 12 THEN 0 ELSE (doc \div (256 ^ (16 - i))) % 256]

RECURSIVE get_uint(_)
get_uint(bytes) ==
    IF bytes = <<>> THEN 0
    ELSE get_uint(SubSeq(bytes, 1, Len(bytes) - 1)) * 256 + bytes[Len(bytes)]

\* str::from_utf8: whether the bytes are well-formed UTF-8
RECURSIVE Utf8Valid(_)
Utf8Valid(bytes) ==
    IF bytes = <<>> THEN TRUE
    ELSE LET b == Head(bytes)
             n == IF b < 128 THEN 1
                  ELSE IF b >= 194 /\ b < 224 THEN 2
                  ELSE IF b >= 224 /\ b < 240 THEN 3
                  ELSE IF b >= 240 /\ b < 245 THEN 4
                  ELSE 0
         IN /\ n > 0
            /\ Len(bytes) >= n
            /\ \A i \in 2..n : bytes[i] >= 128 /\ bytes[i] < 192
            /\ (b = 224 => bytes[2] >= 160)
            /\ (b = 237 => bytes[2] < 160)
            /\ (b = 240 => bytes[2] >= 144)
            /\ (b = 244 => bytes[2] < 144)
            /\ Utf8Valid(SubSeq(bytes, n + 1, Len(bytes)))

\* the key without its delimiter
make_posting_list_key_undelimited(term, doc) == term \o to_be_bytes(doc)

\* the key with the byte 0x01 as its delimiter
make_posting_list_key_one(term, doc) == term \o <<1>> \o to_be_bytes(doc)

make_posting_list_key(term, doc) == term \o <<0>> \o to_be_bytes(doc)

\* make_posting_list_prefix without the delimiter
make_posting_list_prefix_bare(term) == term

make_posting_list_prefix(term) == term \o <<0>>

\* parse_posting_list_key reading the id one byte too early
parse_posting_list_key_shifted(key) ==
    LET length == Len(key) IN
    IF length < 17 THEN [ok |-> FALSE, err |-> "DeserializationError"]
    ELSE LET term_length == length - 17
             term == SubSeq(key, 1, term_length)
         IN IF ~Utf8Valid(term) THEN [ok |-> FALSE, err |-> "Utf8Error"]
            ELSE IF key[term_length + 1] # 0
                 THEN [ok |-> FALSE, err |-> "DeserializationError"]
            ELSE [ok |-> TRUE, term |-> term,
                  doc_id |-> get_uint(SubSeq(key, term_length + 1, length - 1))]

\* parse_posting_list_key checking the delimiter before the term
parse_posting_list_key_delimiter_first(key) ==
    LET length == Len(key) IN
    IF length < 17 THEN [ok |-> FALSE, err |-> "DeserializationError"]
    ELSE LET term_length == length - 17
             term == SubSeq(key, 1, term_length)
         IN IF key[term_length + 1] # 0
            THEN [ok |-> FALSE, err |-> "DeserializationError"]
            ELSE IF ~Utf8Valid(term) THEN [ok |-> FALSE, err |-> "Utf8Error"]
            ELSE [ok |-> TRUE, term |-> term,
                  doc_id |-> get_uint(SubSeq(key, term_length + 2, length))]

\* Ok((term, doc_id)) or Err(error)
parse_posting_list_key(key) ==
    LET length == Len(key) IN
    IF length < 17 THEN [ok |-> FALSE, err |-> "DeserializationError"]
    ELSE LET term_length == length - 17
             term == SubSeq(key, 1, term_length)
         IN IF ~Utf8Valid(term) THEN [ok |-> FALSE, err |-> "Utf8Error"]
            ELSE IF key[term_length + 1] # 0
                 THEN [ok |-> FALSE, err |-> "DeserializationError"]
            ELSE [ok |-> TRUE, term |-> term,
                  doc_id |-> get_uint(SubSeq(key, term_length + 2, length))]

(***************************************************************************)
(* The three stores.                                                       *)
(***************************************************************************)
\* with_keyspace: the name under which each store opens its partition
TermStore_with_keyspace == "terms"
DocumentStore_with_keyspace == "docs"
PostingListStore_with_keyspace == "postings"

\* IndexStore::new: the partitions the keyspace holds once the three stores
\* are open
IndexStore_new ==
    {TermStore_with_keyspace, DocumentStore_with_keyspace,
     PostingListStore_with_keyspace}

TermStore_get(term) ==
    LET slice == Partition_get(term_store, term)
    IN IF slice = <<>> THEN <<>> ELSE <<TermData_try_from(slice[1])>>

DocumentStore_get(id) ==
    LET slice == Partition_get(document_store, to_be_bytes(id))
    IN IF slice = <<>> THEN <<>> ELSE <<DocumentData_try_from(slice[1])>>

\* the items the iterator yields: Ok((doc_id, data)) or Err(error), in scan order
PostingListStore_get(term) ==
    LET scan == Partition_prefix(posting_list_store, make_posting_list_prefix(term))
    IN [i \in 1..Len(scan) |->
          LET key == parse_posting_list_key(scan[i][1])
          IN IF key.ok
             THEN [ok |-> TRUE, doc_id |-> key.doc_id,
                   data |-> DocumentTermData_try_from(scan[i][2])]
             ELSE [ok |-> FALSE, err |-> key.err]]

(***************************************************************************)
(* The tokenizer. A text is a sequence of code points; offsets are byte    *)
(* offsets into its UTF-8 encoding.                                        *)
(***************************************************************************)
\* char::is_numeric, is_lowercase, is_uppercase and is_alphabetic on Basic Latin,
\* Latin-1 and the CJK Unified Ideographs; false elsewhere
is_numeric(c) == c \in 48..57 \/ c \in {178, 179, 185, 188, 189, 190}
is_lowercase(c) == c \in 97..122 \/ c \in {170, 181, 186} \/ c \in 223..246 \/ c \in 248..255
is_uppercase(c) == c \in 65..90 \/ c \in 192..214 \/ c \in 216..222
is_alphabetic(c) == is_lowercase(c) \/ is_uppercase(c) \/ c \in 19968..40959
is_alphanumeric(c) == is_alphabetic(c) \/ is_numeric(c)

\* char::len_utf8
len_utf8(c) == IF c < 128 THEN 1 ELSE IF c < 2048 THEN 2 ELSE IF c < 65536 THEN 3 ELSE 4

\* str::len: the length in bytes
RECURSIVE str_len(_)
str_len(str) == IF str = <<>> THEN 0 ELSE len_utf8(Head(str)) + str_len(Tail(str))

\* str::char_indices: <<byte offset, code point>> of every code point
char_indices(str) == [k \in 1..Len(str) |-> <<str_len(SubSeq(str, 1, k - 1)), str[k]>>]

\* the value of a slice whose ends are not on code-point boundaries (a panic)
PanicSlice == <<-1>>

\* &str[start..end], by byte offsets
Slice(str, start, end) ==
    LET ci == char_indices(str)
        boundary(b) == b = str_len(str) \/ \E k \in DOMAIN ci : ci[k][1] = b
    IN IF start <= end /\ boundary(start) /\ boundary(end)
       THEN LET inside == {k \in DOMAIN ci : ci[k][1] >= start /\ ci[k][1] < end}
            IN IF inside = {} THEN <<>>
               ELSE SubSeq(str, CHOOSE k \in inside : \A o \in inside : k <= o,
                                CHOOSE k \in inside : \A o \in inside : k >= o)
       ELSE PanicSlice

\* the TokenState of a code point
TokenState(c) ==
    IF is_numeric(c) THEN "Digits"
    ELSE IF is_lowercase(c) THEN "Lowercase"
    ELSE IF is_uppercase(c) THEN "Uppercase"
    ELSE "Nocase"

\* the byte length of the last code point of word, counted as one byte
last_char_len_byte(word) == 1

\* the byte length of the last code point of word (word is not empty)
last_char_len(word) ==
    LET ci == char_indices(word) IN str_len(word) - ci[Len(ci)][1]

\* the uppercase-to-lowercase case without its exemption of a single character
UppercaseSplit_always(str, word_start, word_end) ==
    last_char_len(Slice(str, word_start, word_end))

\* the uppercase-to-lowercase case keeping back the last byte of the run
UppercaseSplit_last_byte(str, word_start, word_end) ==
    IF word_end - word_start = 1 THEN 0 ELSE 1

\* the uppercase-to-lowercase case of split_token: the number of bytes to keep
\* back for the next sub-token, 0 when the uppercase run is one character and
\* nothing is emitted
UppercaseSplit(str, word_start, word_end) ==
    IF word_end - word_start = 1 THEN 0
    ELSE LET word == Slice(str, word_start, word_end) IN
         IF char_indices(word) = <<>> THEN 0
         ELSE IF last_char_len(word) = str_len(word) THEN 0
         ELSE last_char_len(word)

\* PartialToken with the offset within the parent as its offset
PartialToken_local(token, word_start, word_end) ==
    [token |-> Slice(token.token, word_start, word_end), line |-> token.line,
     column |-> token.column, offset |-> word_start, partial |-> TRUE]

PartialToken(token, word_start, word_end) ==
    [token |-> Slice(token.token, word_start, word_end), line |-> token.line,
     column |-> token.column, offset |-> token.offset + word_start, partial |-> TRUE]

\* the end-of-token check that skips the last word of every token
WholeTokenIsOneWord_any_end(next_state, word_start) == next_state = "End"

\* the end-of-token check that emits the whole token as a sub-token
WholeTokenIsOneWord_never(next_state, word_start) == FALSE

\* this is the end and the whole token was one word: it is skipped
WholeTokenIsOneWord(next_state, word_start) == next_state = "End" /\ word_start = 0

\* the loop of split_token; st is [it, word_start, next_state, consume_next, out]:
\* it is the index of the code point peek() shows, out the tokens emitted
RECURSIVE split_token_loop(_, _)
split_token_loop(token, st) ==
    LET previous_state == st.next_state IN
    IF previous_state = "End" THEN st.out
    ELSE LET ci == char_indices(token.token)
             it == IF st.consume_next THEN st.it + 1 ELSE st.it
             word_end == IF it <= Len(ci) THEN ci[it][1] ELSE str_len(token.token)
             next_state == IF it <= Len(ci) THEN TokenState(ci[it][2]) ELSE "End"
             st1 == [st EXCEPT !.it = it, !.consume_next = TRUE,
                               !.next_state = next_state]
         IN IF previous_state = next_state THEN split_token_loop(token, st1)
            ELSE IF previous_state = "Start" THEN split_token_loop(token, st1)
            ELSE IF WholeTokenIsOneWord(next_state, st.word_start)
                 THEN split_token_loop(token, st1)
            ELSE IF previous_state = "Uppercase" /\ next_state = "Lowercase"
                 THEN LET keep == UppercaseSplit(token.token, st.word_start, word_end)
                      IN IF keep = 0 THEN split_token_loop(token, st1)
                         ELSE split_token_loop(token,
                                  [st1 EXCEPT
                                      !.out = Append(@, PartialToken(token,
                                                  st.word_start, word_end - keep)),
                                      !.word_start = word_end - keep,
                                      !.consume_next = FALSE])
            ELSE split_token_loop(token,
                     [st1 EXCEPT
                         !.out = Append(@, PartialToken(token, st.word_start, word_end)),
                         !.word_start = word_end])

\* the partial tokens split_token hands to the indexer
split_token(token) ==
    split_token_loop(token, [it |-> 1, word_start |-> 0, next_state |-> "Start",
                             consume_next |-> FALSE, out |-> <<>>])

\* SkipToWord with the column counted in bytes
RECURSIVE SkipToWord_bytes(_, _)
SkipToWord_bytes(ci, st) ==
    IF st.pos > Len(ci) THEN [st EXCEPT !.found = FALSE]
    ELSE LET i == ci[st.pos][1]
             c == ci[st.pos][2]
         IN IF is_alphanumeric(c)
            THEN [st EXCEPT !.pos = @ + 1, !.word_column = st.column,
                            !.column = @ + len_utf8(c), !.start = i, !.found = TRUE]
            ELSE IF c = 10
            THEN SkipToWord_bytes(ci, [st EXCEPT !.pos = @ + 1, !.word_column = st.column,
                                                 !.line = @ + 1, !.column = 0])
            ELSE SkipToWord_bytes(ci, [st EXCEPT !.pos = @ + 1, !.word_column = st.column,
                                                 !.column = @ + len_utf8(c)])

\* the first inner loop of parse_text: skip to the next alphanumeric character;
\* st is [pos, line, column, word_column, start, found], pos the index of the
\* code point next() returns
RECURSIVE SkipToWord(_, _)
SkipToWord(ci, st) ==
    IF st.pos > Len(ci) THEN [st EXCEPT !.found = FALSE]
    ELSE LET i == ci[st.pos][1]
             c == ci[st.pos][2]
         IN IF is_alphanumeric(c)
            THEN [st EXCEPT !.pos = @ + 1, !.word_column = st.column,
                            !.column = @ + 1, !.start = i, !.found = TRUE]
            ELSE IF c = 10
            THEN SkipToWord(ci, [st EXCEPT !.pos = @ + 1, !.word_column = st.column,
                                           !.line = @ + 1, !.column = 0])
            ELSE SkipToWord(ci, [st EXCEPT !.pos = @ + 1, !.word_column = st.column,
                                           !.column = @ + 1])

\* FindWordEnd that ends the last word of the text at its last code point
RECURSIVE FindWordEnd_short(_, _, _)
FindWordEnd_short(ci, text_len, st) ==
    IF st.pos > Len(ci)
    THEN [st EXCEPT !.end = ci[Len(ci)][1]]
    ELSE LET i == ci[st.pos][1]
             c == ci[st.pos][2]
         IN IF ~is_alphanumeric(c)
            THEN [st EXCEPT !.pos = @ + 1, !.end = i,
                            !.column = IF c = 10 THEN 0 ELSE @ + 1,
                            !.ended_with_newline = (c = 10)]
            ELSE FindWordEnd_short(ci, text_len, [st EXCEPT !.pos = @ + 1, !.column = @ + 1])

\* the second inner loop of parse_text: find the end of the word;
\* st is [pos, column, end, ended_with_newline]
RECURSIVE FindWordEnd(_, _, _)
FindWordEnd(ci, text_len, st) ==
    IF st.pos > Len(ci)
    THEN [st EXCEPT !.end = text_len]
    ELSE LET i == ci[st.pos][1]
             c == ci[st.pos][2]
         IN IF ~is_alphanumeric(c)
            THEN [st EXCEPT !.pos = @ + 1, !.end = i,
                            !.column = IF c = 10 THEN 0 ELSE @ + 1,
                            !.ended_with_newline = (c = 10)]
            ELSE FindWordEnd(ci, text_len, [st EXCEPT !.pos = @ + 1, !.column = @ + 1])

\* the outer loop of parse_text; st is [pos, line, column, out]
RECURSIVE parse_text_loop(_, _)
parse_text_loop(str, st) ==
    LET ci == char_indices(str)
        skipped == SkipToWord(ci, [pos |-> st.pos, line |-> st.line,
                                   column |-> st.column, word_column |-> 0,
                                   start |-> 0, found |-> FALSE])
    IN IF ~skipped.found THEN st.out
       ELSE LET ended == FindWordEnd(ci, str_len(str),
                             [pos |-> skipped.pos, column |-> skipped.column,
                              end |-> 0, ended_with_newline |-> FALSE])
                token == [token |-> Slice(str, skipped.start, ended.end),
                          line |-> skipped.line, column |-> skipped.word_column,
                          offset |-> skipped.start, partial |-> FALSE]
            IN parse_text_loop(str,
                   [pos |-> ended.pos,
                    line |-> IF ended.ended_with_newline
                             THEN skipped.line + 1 ELSE skipped.line,
                    column |-> ended.column,
                    out |-> Append(st.out, token) \o split_token(token)])

\* the tokens parse_text hands to the indexer, in order
parse_text(str) == parse_text_loop(str, [pos |-> 1, line |-> 0, column |-> 0, out |-> <<>>])

(***************************************************************************)
(* The scorer and the priority queue of search.                            *)
(***************************************************************************)
RECURSIVE BitLen(_)
BitLen(n) == IF n = 0 THEN 0 ELSE 1 + BitLen(n \div 2)

\* `n as f32` of a u64: the nearest value with a 24-bit significand, ties to even
AsF32(n) ==
    LET bits == BitLen(n) IN
    IF bits <= 24 THEN n
    ELSE LET unit == 2 ^ (bits - 24)
             q == n \div unit
             r == n % unit
             half == unit \div 2
         IN (IF r > half \/ (r = half /\ q % 2 = 1) THEN q + 1 ELSE q) * unit

\* SortingScorer: the score is the document's length
Scorer_score(doc_id, doc_data, ts, t_data, doc_term_data) == AsF32(doc_data.length)

\* push: the item's priority is replaced when the item is already queued
PriorityQueue_push(queue, item, priority) ==
    {e \in queue : e[1] # item} \cup {<<item, priority>>}

\* pop that removes nothing
PriorityQueue_pop_nothing(queue) == {queue}

\* pop that removes an entry of the least priority
PriorityQueue_pop_least(queue) ==
    {queue \ {e} : e \in {x \in queue : \A o \in queue : o[2] >= x[2]}}

\* pop removes an entry of the greatest priority; which one among equals is
\* decided by the heap's internals
PriorityQueue_pop(queue) ==
    {queue \ {e} : e \in {x \in queue : \A o \in queue : o[2] <= x[2]}}

\* into_sorted_iter of a queue that lost its entries
PriorityQueue_into_sorted_iter_empty(queue) == {<<>>}

\* into_sorted_iter: the entries from the greatest priority to the least; the
\* order among equals is decided by the heap's internals
PriorityQueue_into_sorted_iter(queue) ==
    {s \in [1..Cardinality(queue) -> queue] :
        /\ \A i, j \in DOMAIN s : i # j => s[i] # s[j]
        /\ \A i, j \in DOMAIN s : i < j => s[i][2] >= s[j][2]}

\* the results without the .rev()
Reverse_not(s) == s

Reverse(s) == [i \in 1..Len(s) |-> s[Len(s) + 1 - i]]

(***************************************************************************)
(* InvertedIndex::search, one action per round of its loop.                *)
(***************************************************************************)
\* FindFirstDoc with the comparison turned round: the highest head is chosen
RECURSIVE FindFirstDoc_highest(_, _, _)
FindFirstDoc_highest(ps, i, first_doc) ==
    IF i > Len(ps) THEN [err |-> <<>>, first_doc |-> first_doc]
    ELSE IF ps[i] = <<>> THEN FindFirstDoc_highest(ps, i + 1, first_doc)
    ELSE LET result == Head(ps[i]) IN
         IF result.ok
         THEN FindFirstDoc_highest(ps, i + 1,
                  IF first_doc # <<>>
                  THEN (IF result.doc_id > first_doc[1]
                        THEN <<result.doc_id>> ELSE first_doc)
                  ELSE <<result.doc_id>>)
         ELSE [err |-> <<result.err>>, first_doc |-> <<>>]

\* FindFirstDoc that passes over a head that is an error
RECURSIVE FindFirstDoc_skip_errors(_, _, _)
FindFirstDoc_skip_errors(ps, i, first_doc) ==
    IF i > Len(ps) THEN [err |-> <<>>, first_doc |-> first_doc]
    ELSE IF ps[i] = <<>> THEN FindFirstDoc_skip_errors(ps, i + 1, first_doc)
    ELSE LET result == Head(ps[i]) IN
         IF result.ok
         THEN FindFirstDoc_skip_errors(ps, i + 1,
                  IF first_doc # <<>>
                  THEN (IF result.doc_id < first_doc[1]
                        THEN <<result.doc_id>> ELSE first_doc)
                  ELSE <<result.doc_id>>)
         ELSE FindFirstDoc_skip_errors(ps, i + 1, first_doc)

\* FindFirstDoc that ends its pass at the first exhausted iterator
RECURSIVE FindFirstDoc_until_exhausted(_, _, _)
FindFirstDoc_until_exhausted(ps, i, first_doc) ==
    IF i > Len(ps) THEN [err |-> <<>>, first_doc |-> first_doc]
    ELSE IF ps[i] = <<>> THEN [err |-> <<>>, first_doc |-> first_doc]
    ELSE LET result == Head(ps[i]) IN
         IF result.ok
         THEN FindFirstDoc_until_exhausted(ps, i + 1,
                  IF first_doc # <<>>
                  THEN (IF result.doc_id < first_doc[1]
                        THEN <<result.doc_id>> ELSE first_doc)
                  ELSE <<result.doc_id>>)
         ELSE [err |-> <<result.err>>, first_doc |-> <<>>]

\* the first pass of a round: the lowest doc id among the heads, or the first
\* error met
RECURSIVE FindFirstDoc(_, _, _)
FindFirstDoc(ps, i, first_doc) ==
    IF i > Len(ps) THEN [err |-> <<>>, first_doc |-> first_doc]
    ELSE IF ps[i] = <<>> THEN FindFirstDoc(ps, i + 1, first_doc)
    ELSE LET result == Head(ps[i]) IN
         IF result.ok
         THEN FindFirstDoc(ps, i + 1,
                  IF first_doc # <<>>
                  THEN (IF result.doc_id < first_doc[1]
                        THEN <<result.doc_id>> ELSE first_doc)
                  ELSE <<result.doc_id>>)
         ELSE [err |-> <<result.err>>, first_doc |-> <<>>]

\* the second pass reading the heads with peek alone, taking none off
RECURSIVE GrabDocTermData_peek_only(_, _, _, _)
GrabDocTermData_peek_only(ps, i, first_doc, acc) ==
    IF i > Len(ps) THEN acc
    ELSE IF ps[i] = <<>> THEN GrabDocTermData_peek_only(ps, i + 1, first_doc, acc)
    ELSE LET result == Head(ps[i]) IN
         IF result.ok
         THEN GrabDocTermData_peek_only(ps, i + 1, first_doc,
                  [acc EXCEPT !.doc_term_data =
                                  Append(@, IF result.doc_id = first_doc
                                            THEN result.data
                                            ELSE DocumentTermData_default)])
         ELSE [acc EXCEPT !.err = <<result.err>>, !.postings[i] = Tail(@)]

\* the second pass taking the head off every iterator that has one
RECURSIVE GrabDocTermData_advance_all(_, _, _, _)
GrabDocTermData_advance_all(ps, i, first_doc, acc) ==
    IF i > Len(ps) THEN acc
    ELSE IF ps[i] = <<>> THEN GrabDocTermData_advance_all(ps, i + 1, first_doc, acc)
    ELSE LET result == Head(ps[i]) IN
         IF result.ok
         THEN GrabDocTermData_advance_all(ps, i + 1, first_doc,
                  [acc EXCEPT !.doc_term_data =
                                  Append(@, IF result.doc_id = first_doc
                                            THEN result.data
                                            ELSE DocumentTermData_default),
                              !.postings[i] = Tail(@)])
         ELSE [acc EXCEPT !.err = <<result.err>>, !.postings[i] = Tail(@)]

\* the second pass of a round: acc is [err, doc_term_data, postings]
RECURSIVE GrabDocTermData(_, _, _, _)
GrabDocTermData(ps, i, first_doc, acc) ==
    IF i > Len(ps) THEN acc
    ELSE IF ps[i] = <<>> THEN GrabDocTermData(ps, i + 1, first_doc, acc)
    ELSE LET result == Head(ps[i]) IN
         IF result.ok
         THEN IF result.doc_id = first_doc
              THEN GrabDocTermData(ps, i + 1, first_doc,
                       [acc EXCEPT !.doc_term_data = Append(@, result.data),
                                   !.postings[i] = Tail(@)])
              ELSE GrabDocTermData(ps, i + 1, first_doc,
                       [acc EXCEPT !.doc_term_data =
                                       Append(@, DocumentTermData_default)])
         ELSE [acc EXCEPT !.err = <<result.err>>, !.postings[i] = Tail(@)]

unwrap_or(option, default) == IF option = <<>> THEN default ELSE option[1]

\* search up to the loop: the term data and one posting iterator per term
SearchStart(query, max) ==
    /\ pc = "idle"
    /\ terms' = query
    /\ max_docs' = max
    /\ term_data' = [i \in 1..Len(query) |->
                        unwrap_or(TermStore_get(query[i]), TermData_default)]
    /\ postings' = [i \in 1..Len(query) |-> PostingListStore_get(query[i])]
    /\ top_docs' = {}
    /\ score_calls' = <<>>
    /\ results' = <<>>
    /\ search_error' = <<>>
    /\ pc' = "loop"
    /\ UNCHANGED <<store_vars, get_vars, parse_vars, index_vars, record_vars,
                   key_vars, finalize_vars,
                   concurrent_vars>>

\* one round of the loop that finds a document to score
SearchRound ==
    /\ pc = "loop"
    /\ LET found == FindFirstDoc(postings, 1, <<>>) IN
       /\ found.err = <<>>
       /\ found.first_doc # <<>>
       /\ LET first_doc == found.first_doc[1]
              doc_data == unwrap_or(DocumentStore_get(first_doc), DocumentData_default)
              grabbed == GrabDocTermData(postings, 1, first_doc,
                             [err |-> <<>>, doc_term_data |-> <<>>,
                              postings |-> postings])
              score == Scorer_score(first_doc, doc_data, terms, term_data,
                                    grabbed.doc_term_data)
              pushed == PriorityQueue_push(top_docs, first_doc, 0 - score)
          IN /\ grabbed.err = <<>>
             /\ postings' = grabbed.postings
             /\ score_calls' = Append(score_calls,
                    [doc_id |-> first_doc, doc_data |-> doc_data, terms |-> terms,
                     term_data |-> term_data,
                     doc_term_data |-> grabbed.doc_term_data, score |-> score])
             /\ IF Cardinality(pushed) > max_docs
                THEN top_docs' \in PriorityQueue_pop(pushed)
                ELSE top_docs' = pushed
    /\ UNCHANGED <<store_vars, pc, terms, max_docs, term_data, results, search_error,
                   get_vars, parse_vars, index_vars, record_vars,
                   key_vars, finalize_vars,
                   concurrent_vars>>

\* the round that finds no head: the loop breaks and the queue is drained
SearchFinish ==
    /\ pc = "loop"
    /\ LET found == FindFirstDoc(postings, 1, <<>>) IN
       /\ found.err = <<>>
       /\ found.first_doc = <<>>
    /\ \E sorted \in PriorityQueue_into_sorted_iter(top_docs) :
          results' = [i \in 1..Len(sorted) |-> Reverse(sorted)[i][1]]
    /\ pc' = "done"
    /\ UNCHANGED <<store_vars, terms, max_docs, term_data, postings, top_docs,
                   score_calls, search_error, get_vars, parse_vars, index_vars, record_vars,
                   key_vars, finalize_vars,
                   concurrent_vars>>

\* the iterator whose head is the first error in query order
FirstErrorAt(ps) ==
    CHOOSE i \in DOMAIN ps :
        /\ ps[i] # <<>> /\ ~Head(ps[i]).ok
        /\ \A j \in 1..(i - 1) : ps[j] = <<>> \/ Head(ps[j]).ok

\* the round whose first pass meets a head that is an error: the item is taken
\* off its iterator and search returns the error
SearchFail ==
    /\ pc = "loop"
    /\ LET found == FindFirstDoc(postings, 1, <<>>) IN
       /\ found.err # <<>>
       /\ search_error' = found.err
       /\ postings' = [postings EXCEPT ![FirstErrorAt(postings)] = Tail(@)]
    /\ pc' = "error"
    /\ UNCHANGED <<store_vars, terms, max_docs, term_data, top_docs, score_calls,
                   results, get_vars, parse_vars, index_vars, record_vars,
                   key_vars, finalize_vars,
                   concurrent_vars>>

\* search as a function of the store: the lists search can return for a query,
\* one for every way the queue resolves equal priorities; no list when an
\* iterator yields an error
RECURSIVE search_loop(_, _, _, _, _)
search_loop(query, t_data, ps, queue, max) ==
    LET found == FindFirstDoc(ps, 1, <<>>) IN
    IF found.err # <<>> THEN {}
    ELSE IF found.first_doc = <<>>
    THEN {[i \in 1..Len(sorted) |-> Reverse(sorted)[i][1]] :
             sorted \in PriorityQueue_into_sorted_iter(queue)}
    ELSE LET first_doc == found.first_doc[1]
             doc_data == unwrap_or(DocumentStore_get(first_doc), DocumentData_default)
             grabbed == GrabDocTermData(ps, 1, first_doc,
                            [err |-> <<>>, doc_term_data |-> <<>>, postings |-> ps])
             score == Scorer_score(first_doc, doc_data, query, t_data,
                                   grabbed.doc_term_data)
             pushed == PriorityQueue_push(queue, first_doc, 0 - score)
         IN IF grabbed.err # <<>> THEN {}
            ELSE UNION {search_loop(query, t_data, grabbed.postings, q, max) :
                           q \in (IF Cardinality(pushed) > max
                                  THEN PriorityQueue_pop(pushed) ELSE {pushed})}

search(query, max) ==
    search_loop(query,
                [i \in 1..Len(query) |->
                    unwrap_or(TermStore_get(query[i]), TermData_default)],
                [i \in 1..Len(query) |-> PostingListStore_get(query[i])],
                {}, max)

(***************************************************************************)
(* The puts of the three stores.                                           *)
(***************************************************************************)
TermStore_put(term, data) ==
    /\ term_store' = Partition_insert(term_store, term, TermData_serialize(data))
    /\ UNCHANGED <<document_store, posting_list_store>>

DocumentStore_put(id, data) ==
    /\ document_store' =
           Partition_insert(document_store, to_be_bytes(id), DocumentData_serialize(data))
    /\ UNCHANGED <<term_store, posting_list_store>>

PostingListStore_put(term, document, data) ==
    /\ posting_list_store' =
           Partition_insert(posting_list_store, make_posting_list_key(term, document),
                            DocumentTermData_serialize(data))
    /\ UNCHANGED <<term_store, document_store>>

(***************************************************************************)
(* The search specification: puts to the three stores while no search      *)
(* runs, then one search.                                                  *)
(***************************************************************************)
TermDatas == {[count |-> 1, document_count |-> 2]}
DocumentDatas == [path : Paths, length : Lengths]
DocumentTermDatas == {[body_count |-> 5, path_count |-> 15]}
Queries == UNION {[1..n -> SearchTerms] : n \in 0..MaxQueryLen}

EmptyPartition == <<>>

InitSearch ==
    /\ term_store = EmptyPartition
    /\ document_store = EmptyPartition
    /\ posting_list_store = EmptyPartition
    /\ pc = "idle"
    /\ terms = <<>>
    /\ max_docs = 0
    /\ term_data = <<>>
    /\ postings = <<>>
    /\ top_docs = {}
    /\ score_calls = <<>>
    /\ results = <<>>
    /\ search_error = <<>>
    /\ got = <<>>
    /\ put_log = <<>>
    /\ text = <<>>
    /\ tokens = <<>>
    /\ parsed = FALSE
    /\ next_id = 1
    /\ added = <<>>
    /\ add_log = <<>>
    /\ partitions = IndexStore_new
    /\ record_log = <<>>
    /\ record_got = <<>>
    /\ keys_made = {}
    /\ key_parsed = <<>>
    /\ finalizing = <<>>
    /\ write_log = <<>>
    /\ searchers = [p \in Searchers |-> Searcher_idle]

\* the number of entries of the three partitions
Entries ==
    Cardinality(DOMAIN term_store) + Cardinality(DOMAIN document_store)
        + Cardinality(DOMAIN posting_list_store)

PutTerm ==
    /\ pc = "idle"
    /\ \E term \in SearchTerms, data \in TermDatas :
          /\ term \in DOMAIN term_store \/ Entries < MaxEntries
          /\ TermStore_put(term, data)
    /\ UNCHANGED <<search_vars, get_vars, parse_vars, index_vars, record_vars,
                   key_vars, finalize_vars,
                   concurrent_vars>>

PutDocument ==
    /\ pc = "idle"
    /\ \E id \in DocIds, data \in DocumentDatas :
          /\ to_be_bytes(id) \in DOMAIN document_store \/ Entries < MaxEntries
          /\ DocumentStore_put(id, data)
    /\ UNCHANGED <<search_vars, get_vars, parse_vars, index_vars, record_vars,
                   key_vars, finalize_vars,
                   concurrent_vars>>

PutPosting ==
    /\ pc = "idle"
    /\ \E term \in SearchTerms, document \in DocIds, data \in DocumentTermDatas :
          /\ \/ make_posting_list_key(term, document) \in DOMAIN posting_list_store
             \/ Entries < MaxEntries
          /\ PostingListStore_put(term, document, data)
    /\ UNCHANGED <<search_vars, get_vars, parse_vars, index_vars, record_vars,
                   key_vars, finalize_vars,
                   concurrent_vars>>

Search == \E query \in Queries, max \in 0..MaxMaxDocs : SearchStart(query, max)

NextSearch ==
    \/ PutTerm
    \/ PutDocument
    \/ PutPosting
    \/ Search
    \/ SearchRound
    \/ SearchFinish

SpecSearch == InitSearch /\ [][NextSearch]_vars

(***************************************************************************)
(* Properties of search.                                                   *)
(***************************************************************************)
\* the posting record the store holds under (term, doc), the zero record if none
StoredDocTermData(term, doc) ==
    LET slice == Partition_get(posting_list_store, make_posting_list_key(term, doc))
    IN IF slice = <<>> THEN DocumentTermData_default
       ELSE DocumentTermData_try_from(slice[1])

\* the documents that occur in the posting list of at least one query term
Candidates ==
    {d \in DocIds : \E i \in DOMAIN terms :
        make_posting_list_key(terms[i], d) \in DOMAIN posting_list_store}

ScoredDocs == {score_calls[i].doc_id : i \in DOMAIN score_calls}

\* the score the scorer returned for a document it was called for
ScoreOf(d) ==
    score_calls[CHOOSE i \in DOMAIN score_calls : score_calls[i].doc_id = d].score

ResultSet == {results[i] : i \in DOMAIN results}

NoDuplicates(s) == \A i, j \in DOMAIN s : i # j => s[i] # s[j]

DescendingByScore(s) ==
    \A i, j \in DOMAIN s : i < j => ScoreOf(s[i]) >= ScoreOf(s[j])

\* C1: on every scorer invocation the three slices have the same length:
\* len(terms) = len(term_records) = len(doc_term_records), also when the
\* posting iterator of a query term is exhausted or empty.
C1_ScorerSlicesSameLength ==
    \A c \in DOMAIN score_calls :
        /\ Len(score_calls[c].terms) = Len(score_calls[c].term_data)
        /\ Len(score_calls[c].term_data) = Len(score_calls[c].doc_term_data)

\* C2: on every scorer invocation for a document d, doc_term_records[i] is the
\* posting record stored under (terms[i], d), the zero record if there is none,
\* and term_records[i] is the stored TermRecord of terms[i].
C2_ScorerSlicesAligned ==
    \A c \in DOMAIN score_calls :
        LET call == score_calls[c] IN
        \A i \in DOMAIN call.terms :
            /\ i \in DOMAIN call.term_data
            /\ call.term_data[i] = unwrap_or(TermStore_get(call.terms[i]), TermData_default)
            /\ i \in DOMAIN call.doc_term_data
            /\ call.doc_term_data[i] = StoredDocTermData(call.terms[i], call.doc_id)

\* C3: the scorer invocations of a search are in strictly ascending document
\* id order (so no document is scored twice), every scored document is a
\* candidate, and when the search has returned every candidate was scored.
C3_ScoredOnceAscending ==
    /\ \A i, j \in DOMAIN score_calls :
          i < j => score_calls[i].doc_id < score_calls[j].doc_id
    /\ ScoredDocs \subseteq Candidates
    /\ pc = "done" => ScoredDocs = Candidates

\* C3's case: a finished search of two terms whose posting lists share a
\* document and hold another one
C3_Witness ==
    /\ pc = "done"
    /\ Len(terms) = 2
    /\ Len(score_calls) >= 2
    /\ \E d \in DocIds :
          /\ make_posting_list_key(terms[1], d) \in DOMAIN posting_list_store
          /\ make_posting_list_key(terms[2], d) \in DOMAIN posting_list_store

\* C4: when there are more candidates than max_docs > 0, search returns
\* exactly max_docs distinct candidates, none of them scoring lower than a
\* candidate left out, in descending score order.
C4_TopMaxDocs ==
    (pc = "done" /\ max_docs > 0 /\ Cardinality(Candidates) > max_docs) =>
        /\ Len(results) = max_docs
        /\ NoDuplicates(results)
        /\ ResultSet \subseteq Candidates
        /\ \A r \in ResultSet, c \in Candidates \ ResultSet : ScoreOf(r) >= ScoreOf(c)
        /\ DescendingByScore(results)

\* C4's case: three candidates, two returned, and a candidate left out that
\* scores lower than a returned one
C4_Witness ==
    /\ pc = "done"
    /\ max_docs = 2
    /\ Cardinality(Candidates) = 3
    /\ Len(results) = 2
    /\ \E r \in ResultSet, c \in Candidates \ ResultSet : ScoreOf(r) > ScoreOf(c)

\* C5: when max_docs is at least the number of candidates, search returns
\* every candidate exactly once, in descending score order.
C5_AllCandidatesSorted ==
    (pc = "done" /\ max_docs >= Cardinality(Candidates)) =>
        /\ ResultSet = Candidates
        /\ NoDuplicates(results)
        /\ DescendingByScore(results)

\* C5's case: two candidates with different scores, both returned
C5_Witness ==
    /\ pc = "done"
    /\ max_docs >= Cardinality(Candidates)
    /\ Len(results) = 2
    /\ ScoreOf(results[1]) > ScoreOf(results[2])

\* C6: every returned document id occurs in the posting list of a query term,
\* and none is returned twice.
C6_ResultsAreCandidates ==
    pc = "done" => (ResultSet \subseteq Candidates /\ NoDuplicates(results))

\* C6's case: a search of two terms returned two documents, one of them in
\* both posting lists
C6_Witness ==
    /\ pc = "done"
    /\ Len(terms) = 2
    /\ terms[1] # terms[2]
    /\ Len(results) = 2
    /\ \E d \in ResultSet :
          /\ make_posting_list_key(terms[1], d) \in DOMAIN posting_list_store
          /\ make_posting_list_key(terms[2], d) \in DOMAIN posting_list_store

\* C16: a query term without a TermRecord and a visited document without a
\* DocumentRecord do not make search fail: the scorer gets the zero record
\* (count 0, document_count 0; empty path, length 0) in their place, no round
\* of the loop meets an error, no error is returned, and a search that has
\* returned scored every candidate.
C16_MissingRecordsAreZeroRecords ==
    /\ \A c \in DOMAIN score_calls :
          LET call == score_calls[c] IN
          /\ \A i \in DOMAIN call.term_data :
                call.terms[i] \notin DOMAIN term_store
                => call.term_data[i] = [count |-> 0, document_count |-> 0]
          /\ to_be_bytes(call.doc_id) \notin DOMAIN document_store
                => call.doc_data = [path |-> <<>>, length |-> 0]
    /\ pc = "loop" => FindFirstDoc(postings, 1, <<>>).err = <<>>
    /\ pc = "done" => ScoredDocs = Candidates

\* a search has returned that scored a document without a DocumentRecord and
\* one with a record, for a query with a term without a TermRecord and a term
\* with one
C16_Witness ==
    /\ pc = "done"
    /\ \E c, d \in DOMAIN score_calls :
          /\ to_be_bytes(score_calls[c].doc_id) \notin DOMAIN document_store
          /\ to_be_bytes(score_calls[d].doc_id) \in DOMAIN document_store
    /\ \E i, j \in DOMAIN terms :
          /\ terms[i] \notin DOMAIN term_store
          /\ terms[j] \in DOMAIN term_store
    /\ results # <<>>


\* C17: with max_docs not negative, the queue holds at most max_docs entries
\* after every round of the merge loop, and a search with max_docs = 0 returns
\* the empty list whatever the store holds and whatever the query is.
C17_QueueWithinMaxDocs ==
    /\ Cardinality(top_docs) <= max_docs
    /\ (pc = "done" /\ max_docs = 0) => results = <<>>

\* a search with max_docs = 0 has returned after scoring two candidates
C17_Witness ==
    /\ pc = "done"
    /\ max_docs = 0
    /\ Len(score_calls) >= 2
    /\ Cardinality(Candidates) >= 2


\* the sequence without its i-th element
RemoveAt(s, i) == [j \in 1..(Len(s) - 1) |-> IF j < i THEN s[j] ELSE s[j + 1]]

\* C18: with a scorer that reads only the document id and the document
\* record, a query term without posting entries, with or without a TermRecord,
\* does not change what search returns: the query without that term has the
\* same possible results, and the list that was returned is one of them.
C18_TermWithoutPostingsIsNeutral ==
    (pc = "done" /\ \E i \in DOMAIN terms : PostingListStore_get(terms[i]) = <<>>) =>
        LET with_term == search(terms, max_docs) IN
        \A i \in DOMAIN terms :
            PostingListStore_get(terms[i]) = <<>> =>
                LET without_term == search(RemoveAt(terms, i), max_docs) IN
                /\ without_term = with_term
                /\ results \in without_term

\* C18's case: a search of two terms has returned two documents, all of them
\* from the posting list of the second term; the first term has a TermRecord
\* and no posting entry
C18_Witness ==
    /\ pc = "done"
    /\ Len(terms) = 2
    /\ PostingListStore_get(terms[1]) = <<>>
    /\ terms[1] \in DOMAIN term_store
    /\ Len(results) = 2

\* C20: among documents of equal score the returned list is in ascending
\* document id order, and a document of the list has a lower id than a scored
\* document of the same score that was left out.
C20_TiesByAscendingDocId ==
    pc = "done" =>
        /\ \A i, j \in DOMAIN results :
              (i < j /\ ScoreOf(results[i]) = ScoreOf(results[j]))
                  => results[i] < results[j]
        /\ \A r \in ResultSet, c \in ScoredDocs \ ResultSet :
              ScoreOf(r) = ScoreOf(c) => r < c

(***************************************************************************)
(* The posting store specification: puts in any order, and gets that       *)
(* collect the iterator as test_posting_list_store does.                   *)
(***************************************************************************)
\* "a", "ab", and "a\0b", a term with a 0x00 byte
StoreTerms == {<<97>>, <<97, 98>>, <<97, 0, 98>>}
StoreDatas == {[body_count |-> 4, path_count |-> 0], [body_count |-> 5, path_count |-> 1]}

\* put_log with the pair (term, document) set to data
Logged(term, document, data) ==
    [k \in DOMAIN put_log \cup {<<term, document>>} |->
        IF k = <<term, document>> THEN data ELSE put_log[k]]

StorePut ==
    \E term \in StoreTerms, document \in DocIds, data \in StoreDatas :
        /\ <<term, document>> \in DOMAIN put_log \/ Cardinality(DOMAIN put_log) < MaxPuts
        /\ PostingListStore_put(term, document, data)
        /\ put_log' = Logged(term, document, data)
        /\ got' = <<>>
        /\ UNCHANGED <<search_vars, parse_vars, index_vars, record_vars,
                   key_vars, finalize_vars,
                   concurrent_vars>>

\* store.get(term).collect()
StoreGet ==
    \E term \in StoreTerms :
        /\ got' = <<[term |-> term, items |-> PostingListStore_get(term)]>>
        /\ UNCHANGED <<store_vars, put_log, search_vars, parse_vars, index_vars, record_vars,
                   key_vars, finalize_vars,
                   concurrent_vars>>

NextStore == StorePut \/ StoreGet

SpecStore == InitSearch /\ [][NextStore]_vars

NulFree(term) == \A i \in DOMAIN term : term[i] # 0

\* the items are Ok, in strictly ascending doc id order, and are exactly the
\* pairs put under term, each with the record put last
YieldsThePuts(term, items) ==
    /\ \A i \in DOMAIN items : items[i].ok
    /\ \A i, j \in DOMAIN items : i < j => items[i].doc_id < items[j].doc_id
    /\ {<<items[i].doc_id, items[i].data>> : i \in DOMAIN items}
          = {<<k[2], put_log[k]>> : k \in {x \in DOMAIN put_log : x[1] = term}}

\* C7 as stated: for every term t without a 0x00 byte, after any puts over any
\* terms, get(t) yields exactly the pairs put under t, each with its latest
\* record, in strictly ascending doc id order.
C7_GetYieldsThePuts ==
    \A i \in DOMAIN got : NulFree(got[i].term) => YieldsThePuts(got[i].term, got[i].items)

\* C7 amended: the same, when the terms that were put contain no 0x00 byte
\* either.
C7_GetYieldsThePutsOfNulFreeTerms ==
    \A i \in DOMAIN got :
        (NulFree(got[i].term) /\ \A k \in DOMAIN put_log : NulFree(k[1])) =>
            YieldsThePuts(got[i].term, got[i].items)

\* C7's case: get("a") yields two documents, one of them 256, while "ab", of
\* which "a" is a prefix, has a posting too
C7_Witness ==
    /\ got # <<>>
    /\ got[1].term = <<97>>
    /\ Len(got[1].items) = 2
    /\ got[1].items[2].ok /\ got[1].items[2].doc_id = 256
    /\ \A k \in DOMAIN put_log : NulFree(k[1])
    /\ \E k \in DOMAIN put_log : k[1] = <<97, 98>>

(***************************************************************************)
(* The tokenizer specification: parse_text applied to every text of at     *)
(* most MaxTextLen code points.                                            *)
(***************************************************************************)
\* a A U-umlaut 1, the ideograph U+798F (3 bytes), the emoji U+1F49C (4 bytes,
\* not alphanumeric) and the newline
Chars == {97, 65, 220, 49, 31119, 128156, 10}
Texts == UNION {[1..n -> Chars] : n \in 0..MaxTextLen}

InitParse ==
    /\ term_store = EmptyPartition
    /\ document_store = EmptyPartition
    /\ posting_list_store = EmptyPartition
    /\ pc = "idle"
    /\ terms = <<>>
    /\ max_docs = 0
    /\ term_data = <<>>
    /\ postings = <<>>
    /\ top_docs = {}
    /\ score_calls = <<>>
    /\ results = <<>>
    /\ search_error = <<>>
    /\ got = <<>>
    /\ put_log = <<>>
    /\ text \in Texts
    /\ tokens = <<>>
    /\ parsed = FALSE
    /\ next_id = 1
    /\ added = <<>>
    /\ add_log = <<>>
    /\ partitions = IndexStore_new
    /\ record_log = <<>>
    /\ record_got = <<>>
    /\ keys_made = {}
    /\ key_parsed = <<>>
    /\ finalizing = <<>>
    /\ write_log = <<>>
    /\ searchers = [p \in Searchers |-> Searcher_idle]

ParseText ==
    /\ ~parsed
    /\ tokens' = parse_text(text)
    /\ parsed' = TRUE
    /\ UNCHANGED <<text, store_vars, search_vars, get_vars, index_vars, record_vars,
                   key_vars, finalize_vars,
                   concurrent_vars>>

NextParse == ParseText

SpecParse == InitParse /\ [][NextParse]_vars

(***************************************************************************)
(* Properties of the tokenizer.                                            *)
(***************************************************************************)
\* the byte offset of the i-th code point of str
ByteOff(str, i) == str_len(SubSeq(str, 1, i - 1))

\* the maximal runs <<i, j>> of alphanumeric code points of str
AlphanumericRuns(str) ==
    {r \in (1..Len(str)) \X (1..Len(str)) :
        /\ r[1] <= r[2]
        /\ \A i \in r[1]..r[2] : is_alphanumeric(str[i])
        /\ r[1] = 1 \/ ~is_alphanumeric(str[r[1] - 1])
        /\ r[2] = Len(str) \/ ~is_alphanumeric(str[r[2] + 1])}

\* the maximal runs <<i, j>> of uppercase code points of the word w
UppercaseRuns(w) ==
    {r \in (1..Len(w)) \X (1..Len(w)) :
        /\ r[1] <= r[2]
        /\ \A i \in r[1]..r[2] : TokenState(w[i]) = "Uppercase"
        /\ r[1] = 1 \/ TokenState(w[r[1] - 1]) # "Uppercase"
        /\ r[2] = Len(w) \/ TokenState(w[r[2] + 1]) # "Uppercase"}

\* the tokens with partial = false, in the order of their emission
Primaries == SelectSeq(tokens, LAMBDA t : ~t.partial)

\* the positions in tokens of the sub-tokens of the word emitted at position k
PartialsOf(k) ==
    {m \in DOMAIN tokens : m > k /\ \A n \in (k + 1)..m : tokens[n].partial}

\* C8: once parse_text has run on a text, its partial = false tokens are exactly
\* the maximal runs of alphanumeric code points of the text, each once and from
\* left to right, the offset of each is the byte offset of its run, its text is
\* the text's bytes from offset to offset + len, and a text without an
\* alphanumeric code point (the empty text too) yields no token at all.
C8_PrimariesAreMaximalRuns ==
    parsed =>
        /\ Len(Primaries) = Cardinality(AlphanumericRuns(text))
        /\ \A k \in DOMAIN Primaries :
              \E r \in AlphanumericRuns(text) :
                  /\ Cardinality({o \in AlphanumericRuns(text) : o[1] < r[1]}) = k - 1
                  /\ Primaries[k].token = SubSeq(text, r[1], r[2])
                  /\ Primaries[k].offset = ByteOff(text, r[1])
                  /\ Slice(text, Primaries[k].offset,
                           Primaries[k].offset + str_len(Primaries[k].token))
                         = Primaries[k].token
        /\ AlphanumericRuns(text) = {} => tokens = <<>>

\* a text with a multi-byte code point and at least two words has been parsed,
\* and the second word's byte offset differs from its code-point index
C8_Witness ==
    /\ parsed
    /\ Len(Primaries) >= 2
    /\ \E i \in DOMAIN text :
          /\ i > 1 /\ is_alphanumeric(text[i]) /\ ~is_alphanumeric(text[i - 1])
          /\ Primaries[2].offset = ByteOff(text, i)
          /\ ByteOff(text, i) > i - 1

\* C9: in every emitted word, an uppercase run of two or more code points that a
\* lowercase code point follows gives a sub-token that is the run without its
\* last code point, and the sub-token emitted next starts at the byte offset of
\* that last uppercase code point (whatever its byte length) and begins with it.
C9_LongUppercaseRunSplit ==
    parsed =>
        \A k \in DOMAIN tokens : ~tokens[k].partial =>
            LET w == tokens[k].token IN
            \A r \in UppercaseRuns(w) :
                (r[2] > r[1] /\ r[2] < Len(w) /\ TokenState(w[r[2] + 1]) = "Lowercase")
                => \E m \in PartialsOf(k) :
                      /\ tokens[m].token = SubSeq(w, r[1], r[2] - 1)
                      /\ tokens[m].offset = tokens[k].offset + ByteOff(w, r[1])
                      /\ m + 1 \in PartialsOf(k)
                      /\ tokens[m + 1].offset = tokens[k].offset + ByteOff(w, r[2])
                      /\ tokens[m + 1].token # <<>>
                      /\ Head(tokens[m + 1].token) = w[r[2]]
                      /\ Slice(text, tokens[m + 1].offset,
                               tokens[m + 1].offset + str_len(tokens[m + 1].token))
                             = tokens[m + 1].token

\* a word with a run of two-byte uppercase characters before a lowercase one has
\* been split: the sub-token U+00DC is followed by the sub-token U+00DC a
C9_Witness ==
    /\ parsed
    /\ \E m \in DOMAIN tokens :
          /\ tokens[m].partial /\ tokens[m].token = <<220>>
          /\ m + 1 \in DOMAIN tokens
          /\ tokens[m + 1].partial /\ tokens[m + 1].token = <<220, 97>>

\* C10: in every emitted word, an uppercase run of one code point (of any byte
\* length) that a lowercase code point follows has no sub-token boundary between
\* the two: no sub-token of the word starts or ends at the lowercase code point,
\* and when the word has sub-tokens one of them holds both code points.
C10_SingleUppercaseStaysWithLowercase ==
    parsed =>
        \A k \in DOMAIN tokens : ~tokens[k].partial =>
            LET w == tokens[k].token IN
            \A r \in UppercaseRuns(w) :
                (r[2] = r[1] /\ r[2] < Len(w) /\ TokenState(w[r[2] + 1]) = "Lowercase")
                => LET upper == tokens[k].offset + ByteOff(w, r[1])
                       lower == tokens[k].offset + ByteOff(w, r[1] + 1)
                   IN /\ \A m \in PartialsOf(k) :
                             /\ tokens[m].offset # lower
                             /\ tokens[m].offset + str_len(tokens[m].token) # lower
                      /\ PartialsOf(k) # {} =>
                             \E m \in PartialsOf(k) :
                                 /\ tokens[m].offset <= upper
                                 /\ tokens[m].offset + str_len(tokens[m].token) > lower

\* a word with sub-tokens has been parsed in which a single two-byte uppercase
\* character and the lowercase character after it are one sub-token
C10_Witness ==
    /\ parsed
    /\ \E k \in DOMAIN tokens :
          /\ ~tokens[k].partial
          /\ UppercaseRuns(tokens[k].token) # {}
          /\ \E m \in PartialsOf(k) :
                /\ tokens[m].token = <<220, 97>>
                /\ tokens[m].offset > tokens[k].offset

\* C11: in every parsed text, a word whose code points all belong to one class
\* (Digits, Uppercase, Lowercase or Nocase) is emitted as its primary slice
\* alone: no partial = true slice follows it before the next primary.
C11_SingleClassNoPartials ==
    parsed =>
        \A k \in DOMAIN tokens :
            (/\ ~tokens[k].partial
             /\ \A i, j \in DOMAIN tokens[k].token :
                   TokenState(tokens[k].token[i]) = TokenState(tokens[k].token[j]))
            => PartialsOf(k) = {}

\* a text has been parsed that holds a single-class word of several code
\* points, one of them multi-byte, and another word that does have sub-tokens
C11_Witness ==
    /\ parsed
    /\ \E k \in DOMAIN tokens :
          /\ ~tokens[k].partial
          /\ Len(tokens[k].token) >= 2
          /\ str_len(tokens[k].token) > Len(tokens[k].token)
          /\ \A i, j \in DOMAIN tokens[k].token :
                TokenState(tokens[k].token[i]) = TokenState(tokens[k].token[j])
    /\ \E m \in DOMAIN tokens : tokens[m].partial

\* the position in tokens of the last primary token before position m, 0 if none
ParentOf(m) ==
    LET before == {k \in 1..(m - 1) : ~tokens[k].partial}
    IN IF before = {} THEN 0 ELSE CHOOSE k \in before : \A o \in before : o <= k

\* C12: every partial = true token comes after a primary token; with its parent
\* the last primary before it (so it lies before the next primary), it has the
\* parent's line and column, its bytes are the parent's bytes from some offset
\* within the parent, and its offset is the parent's offset plus that offset.
C12_PartialsAreSubRangesOfParent ==
    parsed =>
        \A m \in DOMAIN tokens : tokens[m].partial =>
            /\ ParentOf(m) # 0
            /\ LET parent == tokens[ParentOf(m)]
                   within == tokens[m].offset - parent.offset
               IN /\ tokens[m].line = parent.line
                  /\ tokens[m].column = parent.column
                  /\ within >= 0
                  /\ within + str_len(tokens[m].token) <= str_len(parent.token)
                  /\ Slice(parent.token, within, within + str_len(tokens[m].token))
                        = tokens[m].token
                  /\ Slice(text, tokens[m].offset,
                           tokens[m].offset + str_len(tokens[m].token))
                        = tokens[m].token

\* a sub-token has been emitted that starts inside its parent, after a
\* multi-byte code point, the parent being on the second line at a column and
\* an offset that are not 0
C12_Witness ==
    /\ parsed
    /\ \E m \in DOMAIN tokens :
          /\ tokens[m].partial
          /\ ParentOf(m) # 0
          /\ tokens[ParentOf(m)].line = 1
          /\ tokens[ParentOf(m)].column > 0
          /\ tokens[m].offset > tokens[ParentOf(m)].offset + 1
          /\ Len(tokens[m].token) < tokens[m].offset - tokens[ParentOf(m)].offset + 1

\* the newlines of str before its i-th code point
NewlinesBefore(str, i) == {j \in 1..(i - 1) : str[j] = 10}

\* the index of the first code point of the line that holds the i-th code point
LineStart(str, i) ==
    IF NewlinesBefore(str, i) = {} THEN 1
    ELSE 1 + CHOOSE j \in NewlinesBefore(str, i) : \A o \in NewlinesBefore(str, i) : o <= j

\* C13: every primary token of a parsed text starts at a code point i of the
\* text, its line is the number of newlines before i, and its column is the
\* number of code points (not bytes) from the start of that line to i; so a
\* newline that ends a word, coming after i, does not count for the word.
C13_LineAndColumn ==
    parsed =>
        \A k \in DOMAIN Primaries :
            \E i \in DOMAIN text :
                /\ ByteOff(text, i) = Primaries[k].offset
                /\ Primaries[k].line = Cardinality(NewlinesBefore(text, i))
                /\ Primaries[k].column = i - LineStart(text, i)

\* a word ended by a newline has been parsed, and the word after it lies on the
\* next line behind a multi-byte code point: its column is smaller than its byte
\* distance from the start of its line
C13_Witness ==
    /\ parsed
    /\ \E k \in DOMAIN Primaries :
          /\ k >= 2
          /\ Primaries[k].line = Primaries[k - 1].line + 1
          /\ Primaries[k].column >= 1
          /\ \E i \in DOMAIN text :
                /\ ByteOff(text, i) = Primaries[k].offset
                /\ ByteOff(text, i) - ByteOff(text, LineStart(text, i)) > Primaries[k].column
                /\ text[LineStart(text, i) - 1] = 10
                /\ ByteOff(text, LineStart(text, i) - 1)
                      = Primaries[k - 1].offset + str_len(Primaries[k - 1].token)

(***************************************************************************)
(* Ingestion: DocProcessor and InvertedIndex::add_document.                *)
(***************************************************************************)
MaxAdds == 2

\* the UTF-8 encoding of a code point
encode_utf8(c) ==
    IF c < 128 THEN <<c>>
    ELSE IF c < 2048 THEN <<192 + (c \div 64), 128 + (c % 64)>>
    ELSE IF c < 65536
         THEN <<224 + (c \div 4096), 128 + ((c \div 64) % 64), 128 + (c % 64)>>
    ELSE <<240 + (c \div 262144), 128 + ((c \div 4096) % 64),
           128 + ((c \div 64) % 64), 128 + (c % 64)>>

\* the bytes of a string of code points
RECURSIVE as_bytes(_)
as_bytes(str) ==
    IF str = <<>> THEN <<>> ELSE encode_utf8(Head(str)) \o as_bytes(Tail(str))

\* the id of an add_document call that was given none; the ids start at 1
NoId == 0

\* DocumentStore::new_id, a Result: the outcomes of a call, each with the
\* counter after it.  Ok hands out a fresh id, above every id handed out
\* before; Err hands out none, and the id it was about to hand out is used up
\* or is not.  The allocator is taken to keep its counter outside the records
\* of the three partitions.
new_id(counter) ==
    {[ok |-> TRUE, id |-> counter, counter |-> counter + 1],
     [ok |-> FALSE, id |-> NoId, counter |-> counter],
     [ok |-> FALSE, id |-> NoId, counter |-> counter + 1]}

\* HashMap::new
HashMap_new == <<>>

\* HashMap::remove(key).unwrap_or_default(): the value removed, or the default
HashMap_remove_or(map, key, default) == IF key \in DOMAIN map THEN map[key] ELSE default

HashMap_insert(map, key, value) ==
    [k \in DOMAIN map \cup {key} |-> IF k = key THEN value ELSE map[k]]

DocProcessor_new(id, path) ==
    [id |-> id, path |-> path, in_path |-> FALSE, length |-> 0,
     terms |-> HashMap_new, doc_terms |-> HashMap_new]

\* token.occurrence.position: the ordinal, from 0, of the primary word that the
\* m-th token of the stream is or belongs to
occurrence_position(toks, m) ==
    Cardinality({k \in 1..m : ~toks[k].partial}) - 1

Max(a, b) == IF a > b THEN a ELSE b

\* process_token that counts a token of the path in doc_terms alone
process_token_path_uncounted(self, token, position) ==
    LET key == as_bytes(token.token)
        t_data == HashMap_remove_or(self.terms, key, TermData_default)
        dt_data == HashMap_remove_or(self.doc_terms, key, DocumentTermData_default)
    IN [self EXCEPT
           !.terms = HashMap_insert(@, key,
               [count |-> IF self.in_path THEN t_data.count ELSE t_data.count + 1,
                document_count |-> 1]),
           !.doc_terms = HashMap_insert(@, key,
               IF self.in_path
               THEN [dt_data EXCEPT !.path_count = @ + 1]
               ELSE [dt_data EXCEPT !.body_count = @ + 1]),
           !.length = Max(@, position + 1)]

\* process_token that leaves the partial tokens out
process_token_skip_partial(self, token, position) ==
    IF token.partial THEN self
    ELSE LET key == as_bytes(token.token)
             t_data == HashMap_remove_or(self.terms, key, TermData_default)
             dt_data == HashMap_remove_or(self.doc_terms, key, DocumentTermData_default)
         IN [self EXCEPT
                !.terms = HashMap_insert(@, key,
                    [count |-> t_data.count + 1, document_count |-> 1]),
                !.doc_terms = HashMap_insert(@, key,
                    IF self.in_path
                    THEN [dt_data EXCEPT !.path_count = @ + 1]
                    ELSE [dt_data EXCEPT !.body_count = @ + 1]),
                !.length = Max(@, position + 1)]

\* DocProcessor::process_token
process_token(self, token, position) ==
    LET key == as_bytes(token.token)
        t_data == HashMap_remove_or(self.terms, key, TermData_default)
        dt_data == HashMap_remove_or(self.doc_terms, key, DocumentTermData_default)
    IN [self EXCEPT
           !.terms = HashMap_insert(@, key,
               [count |-> t_data.count + 1, document_count |-> 1]),
           !.doc_terms = HashMap_insert(@, key,
               IF self.in_path
               THEN [dt_data EXCEPT !.path_count = @ + 1]
               ELSE [dt_data EXCEPT !.body_count = @ + 1]),
           !.length = Max(@, position + 1)]

\* process_token called for the tokens of a stream from the m-th on, in order
RECURSIVE ProcessTokens(_, _, _)
ProcessTokens(self, toks, m) ==
    IF m > Len(toks) THEN self
    ELSE ProcessTokens(process_token(self, toks[m], occurrence_position(toks, m)),
                       toks, m + 1)

\* parse_text(str, &mut processor)
parse_text_into(self, str) == ProcessTokens(self, parse_text(str), 1)

\* "/" has no token, "a a" is the word "a" twice
IndexPaths == {<<47>>, <<97, 32, 97>>}
\* what read_to_string reads: "", and "1a a", the word "1a" with the
\* sub-tokens "1" and "a" and then the word "a"
IndexBodies == {<<>>, <<49, 97, 32, 97>>}

\* finalize with the loop of posting puts before the loop of term puts
finalize_next_postings_first(f) ==
    IF ~f.document_written THEN "documents"
    ELSE IF f.doc_terms_left # {} THEN "posting_lists"
    ELSE IF f.terms_left # {} THEN "terms"
    ELSE "return"

\* finalize with the put of the DocumentRecord after the two loops
finalize_next_document_last(f) ==
    IF f.terms_left # {} THEN "terms"
    ELSE IF f.doc_terms_left # {} THEN "posting_lists"
    ELSE IF ~f.document_written THEN "documents"
    ELSE "return"

\* the place finalize is at: the put it makes next, or its return
finalize_next(f) ==
    IF ~f.document_written THEN "documents"
    ELSE IF f.terms_left # {} THEN "terms"
    ELSE IF f.doc_terms_left # {} THEN "posting_lists"
    ELSE "return"

\* no add_document call is running
NoCallRunning == IF finalizing = <<>> THEN TRUE ELSE finalizing[1].returned

\* an add_document call is running and has not called read_to_string
BeforeRead ==
    IF finalizing = <<>> THEN FALSE
    ELSE ~finalizing[1].returned /\ ~finalizing[1].read

\* an add_document call is running and is in finalize
InFinalize ==
    IF finalizing = <<>> THEN FALSE
    ELSE ~finalizing[1].returned /\ finalizing[1].read

\* the processor of add_document(path, doc) at the call of read_to_string
ProcessorOfPath(id, path) ==
    [parse_text_into([DocProcessor_new(id, path) EXCEPT !.in_path = TRUE], path)
        EXCEPT !.in_path = FALSE]

\* the add_document call that has got the id and has reached read_to_string
CallAtRead(id, path) ==
    [self |-> ProcessorOfPath(id, path),
     body |-> <<>>,
     read |-> FALSE,
     document_written |-> FALSE,
     terms_left |-> {},
     doc_terms_left |-> {},
     returned |-> FALSE]

\* add_document that calls the allocator and then works with the number of
\* DocumentRecords stored plus one as the id, in place of the id it was given
BeginAddDocument_id_of_store ==
    /\ NoCallRunning
    /\ next_id <= MaxAdds
    /\ Len(add_log) < MaxAdds
    /\ \E path \in IndexPaths, allocated \in new_id(next_id) :
          /\ allocated.ok
          /\ next_id' = allocated.counter
          /\ finalizing' =
                 <<CallAtRead(Cardinality(DOMAIN document_store) + 1, path)>>
          /\ write_log' = <<>>
    /\ UNCHANGED <<added, add_log, store_vars, search_vars, get_vars, parse_vars,
                   record_vars, key_vars,
                   concurrent_vars>>

\* add_document(path, doc) up to read_to_string: new_document_id returns
\* Ok(id) and the path is parsed into the processor
BeginAddDocument ==
    /\ NoCallRunning
    /\ next_id <= MaxAdds
    /\ Len(add_log) < MaxAdds
    /\ \E path \in IndexPaths, allocated \in new_id(next_id) :
          /\ allocated.ok
          /\ next_id' = allocated.counter
          /\ finalizing' = <<CallAtRead(allocated.id, path)>>
          /\ write_log' = <<>>
    /\ UNCHANGED <<added, add_log, store_vars, search_vars, get_vars, parse_vars,
                   record_vars, key_vars,
                   concurrent_vars>>

\* add_document: self.new_document_id() returns Err and the `?` after it
\* returns the error, before any other statement of the call: the path and
\* the document are not looked at, the call has no id, no processor, and
\* puts nothing
AddDocumentNewIdError ==
    /\ NoCallRunning
    /\ next_id <= MaxAdds
    /\ Len(add_log) < MaxAdds
    /\ \E allocated \in new_id(next_id) :
          /\ ~allocated.ok
          /\ next_id' = allocated.counter
          /\ LET call == [id |-> allocated.id, ok |-> FALSE, err |-> "NewIdError"]
             IN /\ added' = <<call>>
                /\ add_log' = Append(add_log, call)
    /\ UNCHANGED <<finalize_vars, store_vars, search_vars, get_vars, parse_vars,
                   record_vars, key_vars,
                   concurrent_vars>>

\* add_document: doc.read_to_string(&mut text) returns Ok, the text is parsed
\* into the processor and finalize is entered
ReadDocument ==
    /\ BeforeRead
    /\ \E body \in IndexBodies :
          LET processor == parse_text_into(finalizing[1].self, body) IN
          finalizing' = <<[finalizing[1] EXCEPT
                              !.self = processor,
                              !.body = body,
                              !.read = TRUE,
                              !.terms_left = DOMAIN processor.terms,
                              !.doc_terms_left = DOMAIN processor.doc_terms]>>
    /\ UNCHANGED <<index_vars, write_log, store_vars, search_vars, get_vars,
                   parse_vars, record_vars, key_vars,
                   concurrent_vars>>

\* add_document failing at read_to_string after it put the DocumentRecord of
\* the path
AddDocumentReadError_document_put ==
    /\ BeforeRead
    /\ finalizing' = <<[finalizing[1] EXCEPT !.returned = TRUE]>>
    /\ document_store' =
           Partition_insert(document_store, to_be_bytes(finalizing[1].self.id),
               DocumentData_serialize([path |-> finalizing[1].self.path, length |-> 0]))
    /\ LET call == [id |-> finalizing[1].self.id, path |-> finalizing[1].self.path,
                    body |-> <<>>, ok |-> FALSE, err |-> "IoError"]
       IN /\ added' = <<call>>
          /\ add_log' = Append(add_log, call)
    /\ UNCHANGED <<next_id, write_log, term_store, posting_list_store, search_vars,
                   get_vars, parse_vars, record_vars, key_vars,
                   concurrent_vars>>

\* add_document: doc.read_to_string(&mut text) returns Err and the `?` after
\* it returns the error, before finalize is called
AddDocumentReadError ==
    /\ BeforeRead
    /\ finalizing' = <<[finalizing[1] EXCEPT !.returned = TRUE]>>
    /\ LET call == [id |-> finalizing[1].self.id, path |-> finalizing[1].self.path,
                    body |-> <<>>, ok |-> FALSE, err |-> "IoError"]
       IN /\ added' = <<call>>
          /\ add_log' = Append(add_log, call)
    /\ UNCHANGED <<next_id, write_log, store_vars, search_vars, get_vars,
                   parse_vars, record_vars, key_vars,
                   concurrent_vars>>

\* finalize: index.documents().put(self.id, &doc_data)
FinalizePutDocument ==
    /\ InFinalize
    /\ finalize_next(finalizing[1]) = "documents"
    /\ LET self == finalizing[1].self IN
       /\ document_store' = Partition_insert(document_store, to_be_bytes(self.id),
              DocumentData_serialize([path |-> self.path, length |-> self.length]))
       /\ write_log' = Append(write_log,
              [store |-> DocumentStore_with_keyspace, key |-> to_be_bytes(self.id)])
    /\ finalizing' = <<[finalizing[1] EXCEPT !.document_written = TRUE]>>
    /\ UNCHANGED <<term_store, posting_list_store, index_vars, search_vars,
                   get_vars, parse_vars, record_vars, key_vars,
                   concurrent_vars>>

\* a put of a TermRecord that adds the counts to those of the record stored
FinalizePutTerm_accumulate ==
    /\ InFinalize
    /\ finalize_next(finalizing[1]) = "terms"
    /\ \E term \in finalizing[1].terms_left :
          LET self == finalizing[1].self
              slice == Partition_get(term_store, term)
              old == IF slice = <<>> THEN TermData_default
                     ELSE TermData_try_from(slice[1])
          IN
          /\ term_store' = Partition_insert(term_store, term, TermData_serialize(
                 [count |-> old.count + self.terms[term].count,
                  document_count |-> old.document_count
                                       + self.terms[term].document_count]))
          /\ write_log' = Append(write_log,
                 [store |-> TermStore_with_keyspace, key |-> term])
          /\ finalizing' = <<[finalizing[1] EXCEPT !.terms_left = @ \ {term}]>>
    /\ UNCHANGED <<document_store, posting_list_store, index_vars, search_vars,
                   get_vars, parse_vars, record_vars, key_vars,
                   concurrent_vars>>

\* finalize: index.terms().put(term, term_data) for the term the iteration of
\* the terms map yields next, which is any term it has not yielded
FinalizePutTerm ==
    /\ InFinalize
    /\ finalize_next(finalizing[1]) = "terms"
    /\ \E term \in finalizing[1].terms_left :
          LET self == finalizing[1].self IN
          /\ term_store' = Partition_insert(term_store, term,
                                            TermData_serialize(self.terms[term]))
          /\ write_log' = Append(write_log,
                 [store |-> TermStore_with_keyspace, key |-> term])
          /\ finalizing' = <<[finalizing[1] EXCEPT !.terms_left = @ \ {term}]>>
    /\ UNCHANGED <<document_store, posting_list_store, index_vars, search_vars,
                   get_vars, parse_vars, record_vars, key_vars,
                   concurrent_vars>>

\* finalize: index.posting_lists().put(term, self.id, doc_term_data) for the
\* term the iteration of the doc_terms map yields next
FinalizePutPosting ==
    /\ InFinalize
    /\ finalize_next(finalizing[1]) = "posting_lists"
    /\ \E term \in finalizing[1].doc_terms_left :
          LET self == finalizing[1].self IN
          /\ posting_list_store' =
                 Partition_insert(posting_list_store,
                                  make_posting_list_key(term, self.id),
                                  DocumentTermData_serialize(self.doc_terms[term]))
          /\ write_log' = Append(write_log,
                 [store |-> PostingListStore_with_keyspace,
                  key |-> make_posting_list_key(term, self.id)])
          /\ finalizing' = <<[finalizing[1] EXCEPT !.doc_terms_left = @ \ {term}]>>
    /\ UNCHANGED <<document_store, term_store, index_vars, search_vars,
                   get_vars, parse_vars, record_vars, key_vars,
                   concurrent_vars>>

\* finalize returns Ok(()) and add_document returns Ok(id)
FinalizeReturn ==
    /\ InFinalize
    /\ finalize_next(finalizing[1]) = "return"
    /\ finalizing' = <<[finalizing[1] EXCEPT !.returned = TRUE]>>
    /\ LET call == [id |-> finalizing[1].self.id, path |-> finalizing[1].self.path,
                    body |-> finalizing[1].body, ok |-> TRUE]
       IN /\ added' = <<call>>
          /\ add_log' = Append(add_log, call)
    /\ UNCHANGED <<next_id, write_log, store_vars, search_vars, get_vars,
                   parse_vars, record_vars, key_vars,
                   concurrent_vars>>

\* a failing put that takes the DocumentRecord of the call out of the store
FinalizePutFails_rollback ==
    /\ InFinalize
    /\ finalize_next(finalizing[1]) # "return"
    /\ finalizing' = <<[finalizing[1] EXCEPT !.returned = TRUE]>>
    /\ document_store' =
           [k \in DOMAIN document_store \ {to_be_bytes(finalizing[1].self.id)}
               |-> document_store[k]]
    /\ LET call == [id |-> finalizing[1].self.id, path |-> finalizing[1].self.path,
                    body |-> finalizing[1].body, ok |-> FALSE, err |-> "FjallError"]
       IN /\ added' = <<call>>
          /\ add_log' = Append(add_log, call)
    /\ UNCHANGED <<next_id, write_log, term_store, posting_list_store, search_vars,
                   get_vars, parse_vars, record_vars, key_vars,
                   concurrent_vars>>

\* finalize: the put that is next returns Err, which `?` turns into
\* Error::FjallError and returns; add_document returns it in turn
FinalizePutFails ==
    /\ InFinalize
    /\ finalize_next(finalizing[1]) # "return"
    /\ finalizing' = <<[finalizing[1] EXCEPT !.returned = TRUE]>>
    /\ LET call == [id |-> finalizing[1].self.id, path |-> finalizing[1].self.path,
                    body |-> finalizing[1].body, ok |-> FALSE, err |-> "FjallError"]
       IN /\ added' = <<call>>
          /\ add_log' = Append(add_log, call)
    /\ UNCHANGED <<next_id, write_log, store_vars, search_vars, get_vars,
                   parse_vars, record_vars, key_vars,
                   concurrent_vars>>

\* add_document calls, one after the other, every allocation, every read and
\* every put succeeding
NextFinalize ==
    \/ BeginAddDocument
    \/ ReadDocument
    \/ FinalizePutDocument
    \/ FinalizePutTerm
    \/ FinalizePutPosting
    \/ FinalizeReturn

SpecFinalize == InitSearch /\ [][NextFinalize]_vars

\* add_document calls, one after the other, in which the allocation of the
\* id, the read and every put may fail
NextIndex ==
    \/ BeginAddDocument
    \/ AddDocumentNewIdError
    \/ ReadDocument
    \/ AddDocumentReadError
    \/ FinalizePutDocument
    \/ FinalizePutTerm
    \/ FinalizePutPosting
    \/ FinalizeReturn
    \/ FinalizePutFails

SpecIndex == InitSearch /\ [][NextIndex]_vars

(***************************************************************************)
(* Properties of ingestion.                                                *)
(***************************************************************************)
\* the number of tokens, primary and partial alike, of the stream toks whose
\* text is the term
TokenCount(toks, term) ==
    Cardinality({m \in DOMAIN toks : as_bytes(toks[m].token) = term})

\* the terms that occur among the tokens of two streams, and two others
TermsOfInterest(in_path, in_body) ==
    {as_bytes(in_path[m].token) : m \in DOMAIN in_path}
    \cup {as_bytes(in_body[m].token) : m \in DOMAIN in_body}
    \cup {<<97>>, <<49, 49>>}

\* C14: when add_document(path, reader) has returned id, for every term t the
\* postings partition holds an entry under (t, id) exactly if path or body
\* has a token (primary or partial) with text t, and then its path_count is the
\* number of such tokens of the path and its body_count that of the body.
C14_PostingCountsOfAddedDocument ==
    (added # <<>> /\ added[1].ok) =>
        LET in_path == parse_text(added[1].path)
            in_body == parse_text(added[1].body)
        IN \A t \in TermsOfInterest(in_path, in_body) :
               LET slice == Partition_get(posting_list_store,
                                          make_posting_list_key(t, added[1].id))
               IN /\ slice # <<>> <=> TokenCount(in_path, t) + TokenCount(in_body, t) > 0
                  /\ slice # <<>> =>
                        /\ DocumentTermData_try_from(slice[1]).path_count
                              = TokenCount(in_path, t)
                        /\ DocumentTermData_try_from(slice[1]).body_count
                              = TokenCount(in_body, t)

\* a second document has been added whose path holds the term "a" twice and
\* whose body holds it twice, once as a partial token, after a first document
\* that has the term as well
C14_Witness ==
    /\ added # <<>>
    /\ added[1].ok
    /\ added[1].id = 2
    /\ make_posting_list_key(<<97>>, 1) \in DOMAIN posting_list_store
    /\ TokenCount(parse_text(added[1].path), <<97>>) = 2
    /\ TokenCount(parse_text(added[1].body), <<97>>) = 2
    /\ LET in_body == parse_text(added[1].body)
       IN \E m \in DOMAIN in_body : in_body[m].partial /\ in_body[m].token = <<97>>

\* the texts of the tokens of a logged add_document call that returned Ok,
\* those of its path and then those of its body
TokenTextsOfAdd(a) ==
    IF a.ok
    THEN LET in_path == parse_text(a.path)
             in_body == parse_text(a.body)
         IN [m \in 1..(Len(in_path) + Len(in_body)) |->
                IF m <= Len(in_path) THEN as_bytes(in_path[m].token)
                ELSE as_bytes(in_body[m - Len(in_path)].token)]
    ELSE <<>>

\* the terms of a logged call
TermsOfAdd(a) == {TokenTextsOfAdd(a)[m] : m \in DOMAIN TokenTextsOfAdd(a)}

\* the number of tokens of a logged call's path and body whose text is the term
TokensOfAdd(a, term) ==
    Cardinality({m \in DOMAIN TokenTextsOfAdd(a) : TokenTextsOfAdd(a)[m] = term})

\* C22: when no add_document call is running and every call made has returned
\* Ok, the TermRecord stored for a term t is the contribution of the last
\* added document that has t: count is the number of tokens of that document
\* equal to t and document_count is 1, however many earlier documents have t;
\* a term of no document has no record.
C22_TermRecordOfLastDocument ==
    (NoCallRunning /\ \A i \in DOMAIN add_log : add_log[i].ok) =>
    \A texts \in {[i \in DOMAIN add_log |-> TokenTextsOfAdd(add_log[i])]} :
    \A sets \in {[i \in DOMAIN add_log |-> {texts[i][m] : m \in DOMAIN texts[i]}]} :
    \A t \in UNION {sets[i] : i \in DOMAIN add_log} \cup {<<49, 49>>} :
        LET having == {i \in DOMAIN add_log : t \in sets[i]} IN
        IF having = {} THEN TermStore_get(t) = <<>>
        ELSE LET last == CHOOSE i \in having : \A j \in having : j <= i IN
             TermStore_get(t) =
                 <<[count |-> Cardinality({m \in DOMAIN texts[last] : texts[last][m] = t}),
                    document_count |-> 1]>>

\* C22's case: two documents were added, both have the term "a", the second
\* one with fewer tokens of it, and the first one has a term that the second
\* has not
C22_Witness ==
    /\ NoCallRunning
    /\ Len(add_log) = 2
    /\ add_log[1].ok /\ add_log[2].ok
    /\ TokensOfAdd(add_log[1], <<97>>) > TokensOfAdd(add_log[2], <<97>>)
    /\ TermsOfAdd(add_log[1]) \ TermsOfAdd(add_log[2]) # {}

\* the ids of the add_document calls that got one, in the order of the calls:
\* those of the calls that returned, then that of the call that is running
IdsAllocated ==
    LET logged == SelectSeq(add_log, LAMBDA call : call.id # NoId)
    IN [i \in DOMAIN logged |-> logged[i].id]
           \o (IF NoCallRunning THEN <<>> ELSE <<finalizing[1].self.id>>)

\* the id of the add_document call that is running or, when none is, of the
\* last call that got one; NoId before the first
CurrentId == IF finalizing = <<>> THEN NoId ELSE finalizing[1].self.id

\* a step changes or removes, in the documents and in the postings
\* partition, only records stored under the id
OthersKept(id) ==
    IF document_store' = document_store /\ posting_list_store' = posting_list_store
    THEN TRUE
    ELSE /\ \A key \in DOMAIN document_store :
               (IF key \in DOMAIN document_store'
                THEN document_store'[key] # document_store[key] ELSE TRUE)
               => get_uint(key) = id
         /\ \A key \in DOMAIN posting_list_store :
               (IF key \in DOMAIN posting_list_store'
                THEN posting_list_store'[key] # posting_list_store[key] ELSE TRUE)
               => parse_posting_list_key(key).doc_id = id

\* the id in the key of a put of write_log; NoId for a put of a TermRecord,
\* whose key has none
IdOfWrite(write) ==
    IF write.store = DocumentStore_with_keyspace THEN get_uint(write.key)
    ELSE IF write.store = PostingListStore_with_keyspace
    THEN parse_posting_list_key(write.key).doc_id
    ELSE NoId

\* C23: the id of every add_document call is greater than the id of every
\* earlier call, and so differs from it, whether the earlier call returned
\* Ok, failed or is the call that is running, and the allocator's counter is
\* above them all; a call that fails at the allocation has no id.  The id is
\* taken from the allocator once, when the call begins, and is the one the
\* call works with: every DocumentRecord stored is keyed by the id of a call,
\* every record a call puts is keyed by its own id, no step changes a record
\* stored under another id, and a step in which a call goes on, returns or
\* fails leaves the counter as it is.
C23_IdsFreshAndIncreasing ==
    /\ [](\A ids \in {IdsAllocated} :
            /\ \A i, j \in DOMAIN ids : i < j => ids[i] < ids[j]
            /\ \A i \in DOMAIN ids : ids[i] # NoId /\ ids[i] < next_id
            /\ \A key \in DOMAIN document_store :
                  \E i \in DOMAIN ids : ids[i] = get_uint(key))
    /\ [](\A i \in DOMAIN add_log :
            add_log[i].id = NoId <=>
                (IF add_log[i].ok THEN FALSE ELSE add_log[i].err = "NewIdError"))
    /\ [][/\ next_id' >= next_id
          /\ next_id' # next_id => NoCallRunning
          /\ (finalizing' # finalizing /\ NoCallRunning) =>
                /\ finalizing'[1].self.id = next_id
                /\ next_id' > next_id
          /\ (write_log' # write_log /\ write_log' # <<>>) =>
                IdOfWrite(write_log'[Len(write_log')]) \in {NoId, CurrentId}
          /\ OthersKept(IF NoCallRunning THEN NoId ELSE CurrentId)]_vars

\* C23's case: a call that failed at the read after its id was allocated,
\* then a call with the next id that put its DocumentRecord and failed in
\* finalize
C23_Witness ==
    /\ Len(add_log) = 2
    /\ add_log[1].id = 1 /\ ~add_log[1].ok /\ add_log[1].err = "IoError"
    /\ add_log[2].id = 2 /\ ~add_log[2].ok /\ add_log[2].err = "FjallError"
    /\ DOMAIN document_store = {to_be_bytes(2)}
    /\ next_id = 3

(***************************************************************************)
(* The search specification with keys in the postings partition that       *)
(* PostingListStore::put did not write: the iterator of a term yields an   *)
(* Err item for such a key.                                                *)
(***************************************************************************)
\* keys that start with the prefix of "a" or "b" and do not parse: "a\0" and
\* "a\0\1" are shorter than 17 bytes, the third has the term bytes "b\0\xff",
\* the fourth has 1 where the delimiter is read
RawKeys ==
    {<<97, 0>>, <<97, 0, 1>>, <<98, 0, 255, 0>> \o to_be_bytes(1),
     <<98, 0, 1>> \o to_be_bytes(2)}

\* Partition::insert of a key and a value as they are
PutRawPosting ==
    /\ pc = "idle"
    /\ \E key \in RawKeys, data \in DocumentTermDatas :
          /\ key \in DOMAIN posting_list_store \/ Entries < MaxEntries
          /\ posting_list_store' =
                 Partition_insert(posting_list_store, key, DocumentTermData_serialize(data))
    /\ UNCHANGED <<term_store, document_store, search_vars, get_vars, parse_vars, index_vars, record_vars,
                   key_vars, finalize_vars,
                   concurrent_vars>>

NextSearchErr ==
    \/ PutDocument
    \/ PutPosting
    \/ PutRawPosting
    \/ Search
    \/ SearchRound
    \/ SearchFinish
    \/ SearchFail

SpecSearchErr == InitSearch /\ [][NextSearchErr]_vars

\* some iterator of the search has an error at its head
HeadError == \E i \in DOMAIN postings : postings[i] # <<>> /\ ~Head(postings[i]).ok

\* C15: in a round of the merge loop in which the head of some term's iterator
\* is an error, search returns with that error (the first one in query order)
\* and no result list, and the scorer is not called in that step; once search
\* has returned an error the scorer is never called again.
C15_ErrorHeadFailsFast ==
    [][/\ (pc = "loop" /\ HeadError) =>
             /\ pc' = "error"
             /\ search_error' = <<Head(postings[FirstErrorAt(postings)]).err>>
             /\ results' = <<>>
             /\ score_calls' = score_calls
       /\ pc = "error" => (pc' = "error" /\ score_calls' = score_calls)]_vars

\* a search of two terms has returned an error that the second term's iterator
\* yielded, after a round that scored a document
C15_Witness ==
    /\ pc = "error"
    /\ search_error # <<>>
    /\ Len(terms) = 2
    /\ Len(score_calls) >= 1
    /\ Len(postings[2]) < Len(PostingListStore_get(terms[2]))
    /\ postings[1] # <<>>

\* the items the iterators of the query terms yield contain an error
QueryYieldsError ==
    \E i \in DOMAIN terms :
        \E k \in DOMAIN PostingListStore_get(terms[i]) :
            ~PostingListStore_get(terms[i])[k].ok

\* C19 as stated: a search that returned a list returned the empty list only
\* when no query term has a posting entry, and it returned a list only when no
\* iterator of a query term yields an error.
C19_EmptyOnlyWithoutCandidates ==
    /\ (pc = "done" /\ results = <<>>) => Candidates = {}
    /\ pc = "done" => ~QueryYieldsError
    /\ pc = "error" => (results = <<>> /\ search_error # <<>>)

\* C19 for max_docs of at least 1: a search that returned a list returned the
\* empty list only when no query term has a posting entry, and it returned a
\* list only when no iterator of a query term yields an error.  With
\* max_docs = 0 the list is empty whatever the candidates are.
C19_EmptyOnlyWithoutCandidatesOrMaxDocsZero ==
    /\ (pc = "done" /\ results = <<>> /\ max_docs >= 1) => Candidates = {}
    /\ pc = "done" => ~QueryYieldsError
    /\ pc = "error" => (results = <<>> /\ search_error # <<>>)

\* C19's case: a search with max_docs of at least 1 has returned the empty
\* list for a term without posting entries while the store holds posting
\* entries of another term
C19_Witness ==
    /\ pc = "done"
    /\ results = <<>>
    /\ max_docs >= 1
    /\ Len(terms) >= 1
    /\ Candidates = {}
    /\ posting_list_store # EmptyPartition

(***************************************************************************)
(* The record stores specification: puts to the three stores and gets of   *)
(* the term and document stores, in any order.                             *)
(***************************************************************************)
\* "a" and "ab"
RecordTerms == {<<97>>, <<97, 98>>}
RecordTermDatas == {[count |-> 1, document_count |-> 2], [count |-> 0, document_count |-> 7]}
RecordDocIds == {1, 256}
\* the paths "/" and ""
RecordDocumentDatas == {[path |-> <<47>>, length |-> 3], [path |-> <<>>, length |-> 0]}

\* store.put(term, &term_data) on the term store
RecordTermPut ==
    /\ TermStore_with_keyspace \in partitions
    /\ Len(record_log) < MaxPuts
    /\ \E term \in RecordTerms, data \in RecordTermDatas :
          /\ TermStore_put(term, data)
          /\ record_log' = Append(record_log,
                 [store |-> TermStore_with_keyspace, key |-> term, data |-> data])
    /\ record_got' = <<>>
    /\ UNCHANGED <<partitions, search_vars, get_vars, parse_vars, index_vars,
                   key_vars, finalize_vars,
                   concurrent_vars>>

\* store.put(id, &doc_data) on the document store
RecordDocumentPut ==
    /\ DocumentStore_with_keyspace \in partitions
    /\ Len(record_log) < MaxPuts
    /\ \E id \in RecordDocIds, data \in RecordDocumentDatas :
          /\ DocumentStore_put(id, data)
          /\ record_log' = Append(record_log,
                 [store |-> DocumentStore_with_keyspace, key |-> to_be_bytes(id),
                  data |-> data])
    /\ record_got' = <<>>
    /\ UNCHANGED <<partitions, search_vars, get_vars, parse_vars, index_vars,
                   key_vars, finalize_vars,
                   concurrent_vars>>

\* store.put(term, document, &data) on the posting store
RecordPostingPut ==
    /\ PostingListStore_with_keyspace \in partitions
    /\ Len(record_log) < MaxPuts
    /\ \E term \in RecordTerms, document \in RecordDocIds :
          /\ PostingListStore_put(term, document, [body_count |-> 5, path_count |-> 15])
          /\ record_log' = Append(record_log,
                 [store |-> PostingListStore_with_keyspace,
                  key |-> make_posting_list_key(term, document),
                  data |-> [body_count |-> 5, path_count |-> 15]])
    /\ record_got' = <<>>
    /\ UNCHANGED <<partitions, search_vars, get_vars, parse_vars, index_vars,
                   key_vars, finalize_vars,
                   concurrent_vars>>

\* store.get(term) on the term store
RecordTermGet ==
    /\ TermStore_with_keyspace \in partitions
    /\ \E term \in RecordTerms :
          record_got' = <<[store |-> TermStore_with_keyspace, key |-> term,
                           result |-> TermStore_get(term)]>>
    /\ UNCHANGED <<partitions, record_log, store_vars, search_vars, get_vars,
                   parse_vars, index_vars,
                   key_vars, finalize_vars,
                   concurrent_vars>>

\* store.get(id) on the document store
RecordDocumentGet ==
    /\ DocumentStore_with_keyspace \in partitions
    /\ \E id \in RecordDocIds :
          record_got' = <<[store |-> DocumentStore_with_keyspace,
                           key |-> to_be_bytes(id),
                           result |-> DocumentStore_get(id)]>>
    /\ UNCHANGED <<partitions, record_log, store_vars, search_vars, get_vars,
                   parse_vars, index_vars,
                   key_vars, finalize_vars,
                   concurrent_vars>>

\* the order in which IndexStore::new opens the three partitions and
\* IndexStore::delete deletes them
PartitionOrder ==
    <<TermStore_with_keyspace, DocumentStore_with_keyspace,
      PostingListStore_with_keyspace>>

\* what a partition holds once the n first partitions of the order are deleted
AfterDelete(db, store, n) ==
    IF \E i \in 1..n : PartitionOrder[i] = store THEN EmptyPartition ELSE db

\* IndexStore::new(&keyspace)?.delete(&keyspace): delete_partition is called
\* for the partitions of the terms, of the documents and of the postings, in
\* this order, and the `?` after a call that fails returns the error; n is
\* the number of calls that succeeded.  A deleted partition is gone from the
\* keyspace with its entries; record_log keeps the puts made to the
\* partitions that are left.
RecordDelete ==
    /\ partitions = IndexStore_new
    /\ \E n \in 0..Len(PartitionOrder) :
          /\ partitions' = partitions \ {PartitionOrder[i] : i \in 1..n}
          /\ term_store' = AfterDelete(term_store, TermStore_with_keyspace, n)
          /\ document_store' =
                 AfterDelete(document_store, DocumentStore_with_keyspace, n)
          /\ posting_list_store' =
                 AfterDelete(posting_list_store, PostingListStore_with_keyspace, n)
          /\ record_log' = SelectSeq(record_log,
                 LAMBDA r : ~\E i \in 1..n : PartitionOrder[i] = r.store)
    /\ record_got' = <<>>
    /\ UNCHANGED <<search_vars, get_vars, parse_vars, index_vars,
                   key_vars, finalize_vars, concurrent_vars>>

\* IndexStore::new(&keyspace): with_keyspace opens the partitions of the
\* terms, of the documents and of the postings, in this order, creating those
\* the keyspace does not hold, and the `?` after a call that fails returns the
\* error; n is the number of calls that succeeded.  A partition that is
\* created holds no entry.
RecordNew ==
    /\ \E n \in 0..Len(PartitionOrder) :
          partitions' = partitions \cup {PartitionOrder[i] : i \in 1..n}
    /\ record_got' = <<>>
    /\ UNCHANGED <<record_log, store_vars, search_vars, get_vars, parse_vars,
                   index_vars, key_vars, finalize_vars, concurrent_vars>>

NextRecords ==
    \/ RecordTermPut
    \/ RecordDocumentPut
    \/ RecordPostingPut
    \/ RecordTermGet
    \/ RecordDocumentGet
    \/ RecordDelete
    \/ RecordNew

SpecRecords == InitSearch /\ [][NextRecords]_vars

\* the puts made to a store under a key since its partition was created, as
\* positions of the log
PutsOf(store, key) ==
    {i \in DOMAIN record_log : record_log[i].store = store /\ record_log[i].key = key}

\* what a get of the key has to return: None, or Some of the record last put
LastPut(store, key) ==
    IF PutsOf(store, key) = {} THEN <<>>
    ELSE <<record_log[CHOOSE i \in PutsOf(store, key) :
                          \A j \in PutsOf(store, key) : j <= i].data>>

\* C21: on the term store and on the document store, get(k) is None when k was
\* never put to the partition as it was created last, and otherwise Some of a
\* record equal, field by field, to the one put last under k, whatever was put
\* under other keys and to other stores; this holds for the record a get
\* returned and for every key of each store.
C21_GetReturnsTheLastPut ==
    /\ \A term \in RecordTerms :
          TermStore_get(term) = LastPut(TermStore_with_keyspace, term)
    /\ \A id \in RecordDocIds :
          DocumentStore_get(id) = LastPut(DocumentStore_with_keyspace, to_be_bytes(id))
    /\ \A g \in DOMAIN record_got :
          /\ record_got[g].result = LastPut(record_got[g].store, record_got[g].key)
          /\ \A r \in DOMAIN record_got[g].result :
                LET last == LastPut(record_got[g].store, record_got[g].key)[1] IN
                \A f \in DOMAIN last : record_got[g].result[r][f] = last[f]

\* C21's case: a get of the term store returned the second of two different
\* records put under the same term, after a later put to another store
C21_Witness ==
    /\ record_got # <<>>
    /\ record_got[1].store = TermStore_with_keyspace
    /\ record_got[1].result # <<>>
    /\ Cardinality(PutsOf(TermStore_with_keyspace, record_got[1].key)) = 2
    /\ \E i, j \in PutsOf(TermStore_with_keyspace, record_got[1].key) :
          i < j /\ record_log[i].data # record_log[j].data
    /\ record_log[Len(record_log)].store # TermStore_with_keyspace

\* C29: the keyspace holds the three partitions under the names terms,
\* documents and postings.
C29_PartitionNames ==
    partitions = {"terms", "documents", "postings"}

(***************************************************************************)
(* The tokenizer specification on texts of multi-byte characters.          *)
(***************************************************************************)
\* a, u-umlaut and U-umlaut (2 bytes each), the ideograph U+798F (3 bytes), 1
\* and the emoji U+1F49C (4 bytes, not alphanumeric)
WideChars == {97, 252, 220, 31119, 49, 128156}
WideTexts == UNION {[1..n -> WideChars] : n \in 0..MaxTextLen}

InitParseWide ==
    /\ term_store = EmptyPartition
    /\ document_store = EmptyPartition
    /\ posting_list_store = EmptyPartition
    /\ pc = "idle"
    /\ terms = <<>>
    /\ max_docs = 0
    /\ term_data = <<>>
    /\ postings = <<>>
    /\ top_docs = {}
    /\ score_calls = <<>>
    /\ results = <<>>
    /\ search_error = <<>>
    /\ got = <<>>
    /\ put_log = <<>>
    /\ text \in WideTexts
    /\ tokens = <<>>
    /\ parsed = FALSE
    /\ next_id = 1
    /\ added = <<>>
    /\ add_log = <<>>
    /\ partitions = IndexStore_new
    /\ record_log = <<>>
    /\ record_got = <<>>
    /\ keys_made = {}
    /\ key_parsed = <<>>
    /\ finalizing = <<>>
    /\ write_log = <<>>
    /\ searchers = [p \in Searchers |-> Searcher_idle]

SpecParseWide == InitParseWide /\ [][NextParse]_vars

\* the byte offsets of str that lie on a code-point boundary, its end included
Boundaries(str) == {ByteOff(str, i) : i \in 1..(Len(str) + 1)}

\* every slice taken for the tokens toks of str was taken at code-point
\* boundaries inside str: no token is the value of a panic, and each token
\* starts and ends on a boundary
NoPanic(str, toks) ==
    \A bounds \in {Boundaries(str)} :
    \A m \in DOMAIN toks :
        /\ toks[m].token # PanicSlice
        /\ toks[m].offset \in bounds
        /\ toks[m].offset + str_len(toks[m].token) \in bounds

\* C24: on every text parse_text, split_token included, returns a finite
\* list of tokens, at most two for each code point of the text, and no slice
\* it takes panics: every slice boundary is a code-point boundary inside the
\* text, also when the characters are multi-byte uppercase, lowercase or
\* caseless ones; the tokens the caller received are that list.
C24_ParseTextReturnsWithoutPanic ==
    /\ \A toks \in {parse_text(text)} :
          /\ DOMAIN toks = 1..Len(toks)
          /\ Len(toks) <= 2 * Len(text)
          /\ NoPanic(text, toks)
          /\ parsed => tokens = toks
    /\ ~parsed => tokens = <<>>

\* C24's case: parse_text has run on a text that holds a multi-byte uppercase,
\* a multi-byte lowercase and a multi-byte caseless character, and split_token
\* emitted a sub-token after a run of two multi-byte uppercase characters
C24_Witness ==
    /\ parsed
    /\ {220, 252, 31119} \subseteq {text[i] : i \in DOMAIN text}
    /\ \E i \in 1..(Len(text) - 2) :
          text[i] = 220 /\ text[i + 1] = 220 /\ text[i + 2] = 252
    /\ \E m \in DOMAIN tokens : tokens[m].partial /\ tokens[m].token = <<220>>

(***************************************************************************)
(* The key codec specification: keys are made from terms and document ids  *)
(* and parsed back, and a key that was not made by make_posting_list_key   *)
(* is stored in the postings partition and parsed.                         *)
(***************************************************************************)
MaxKeys == 2

\* "", "a", "ab", "b", "a" 0x00 "b" and u-umlaut
KeyTerms == {<<>>, <<97>>, <<97, 98>>, <<98>>, <<97, 0, 98>>, <<195, 188>>}
\* 255 and 256 differ in which byte is the greater one; 16777216 fills the
\* fourth byte from the end
KeyDocIds == {0, 1, 255, 256, 16777216}

\* keys of 0, 2 and 16 bytes; the key of ("a", 1); a key with the byte 0x01 in
\* the place of the delimiter, after the term "a" 0x00 "b" and after the empty
\* term; a key whose term bytes are not UTF-8, with the delimiter and without
StoredKeys ==
    {<<>>, <<97, 0>>, <<97, 0>> \o [i \in 1..14 |-> 7],
     make_posting_list_key(<<97>>, 1),
     <<97, 0, 98, 1>> \o to_be_bytes(1),
     <<1>> \o to_be_bytes(1),
     <<97, 0, 255, 0>> \o to_be_bytes(1),
     <<97, 0, 255, 1>> \o to_be_bytes(1)}

\* make_posting_list_key(term, doc), and parse_posting_list_key of its result
MakeKey ==
    /\ Cardinality(keys_made) < MaxKeys
    /\ \E term \in KeyTerms, doc \in KeyDocIds :
          LET key == make_posting_list_key(term, doc) IN
          keys_made' = keys_made \cup
              {[term |-> term, doc |-> doc, key |-> key,
                parsed |-> parse_posting_list_key(key)]}
    /\ UNCHANGED <<key_parsed, store_vars, search_vars, get_vars, parse_vars,
                   index_vars, record_vars, finalize_vars,
                   concurrent_vars>>

\* Partition::insert of a key as it is into the empty postings partition,
\* and parse_posting_list_key of that key
ParseStoredKey ==
    /\ posting_list_store = EmptyPartition
    /\ \E key \in StoredKeys :
          /\ posting_list_store' =
                 Partition_insert(posting_list_store, key,
                     DocumentTermData_serialize([body_count |-> 5, path_count |-> 15]))
          /\ key_parsed' = <<[key |-> key, result |-> parse_posting_list_key(key)]>>
    /\ UNCHANGED <<keys_made, term_store, document_store, search_vars, get_vars,
                   parse_vars, index_vars, record_vars, finalize_vars,
                   concurrent_vars>>

NextKey == MakeKey \/ ParseStoredKey

SpecKey == InitSearch /\ [][NextKey]_vars

\* the value of the 16 bytes of key that follow its byte at offset, the most
\* significant byte first
BigEndianValue(key, offset) ==
    LET weigh[i \in 0..16] ==
            IF i = 0 THEN 0 ELSE weigh[i - 1] * 256 + key[offset + i]
    IN weigh[16]

\* C25: the key of (t, d) is the bytes of t, then one 0x00 byte, then the 16
\* bytes of d, most significant first; parse_posting_list_key of it returns
\* (t, d); two different pairs have different keys.
C25_KeyRoundTrip ==
    /\ \A m \in keys_made :
          /\ Len(m.key) = Len(m.term) + 17
          /\ SubSeq(m.key, 1, Len(m.term)) = m.term
          /\ m.key[Len(m.term) + 1] = 0
          /\ BigEndianValue(m.key, Len(m.term) + 1) = m.doc
          /\ m.parsed = [ok |-> TRUE, term |-> m.term, doc_id |-> m.doc]
    /\ \A m, n \in keys_made :
          (m.term # n.term \/ m.doc # n.doc) => m.key # n.key

\* C25's case: keys were made for "a" with the id 256 and for "a" 0x00 "b",
\* which holds the delimiter byte itself
C25_Witness ==
    /\ \E m \in keys_made : m.term = <<97>> /\ m.doc = 256
    /\ \E m \in keys_made : m.term = <<97, 0, 98>>

\* the key has at least 17 bytes and the bytes before its last 17 are UTF-8
TermBytesValid(key) == Len(key) >= 17 /\ Utf8Valid(SubSeq(key, 1, Len(key) - 17))

\* the key has at least 17 bytes and the first of its last 17 bytes is 0x00
DelimiterPresent(key) == Len(key) >= 17 /\ key[Len(key) - 16] = 0

\* the iterator of every term whose prefix the key starts with yields an Err
\* item that holds the error parse_posting_list_key returned for the key
IteratorYieldsTheError(p) ==
    \A term \in KeyTerms :
        HasPrefix(p.key, make_posting_list_prefix(term)) =>
            PostingListStore_get(term) = <<[ok |-> FALSE, err |-> p.result.err]>>

\* C26 as stated: parse_posting_list_key fails with DeserializationError on a
\* key of fewer than 17 bytes and on a key whose byte at offset len - 17 is
\* not 0x00, and with a UTF-8 error on a key whose term bytes are not UTF-8;
\* the iterator yields the failure as an Err item.
C26_MalformedKeyErrors ==
    \A i \in DOMAIN key_parsed :
        LET p == key_parsed[i] IN
        /\ Len(p.key) < 17 => p.result = [ok |-> FALSE, err |-> "DeserializationError"]
        /\ (Len(p.key) >= 17 /\ ~DelimiterPresent(p.key))
              => p.result = [ok |-> FALSE, err |-> "DeserializationError"]
        /\ (Len(p.key) >= 17 /\ ~TermBytesValid(p.key))
              => p.result = [ok |-> FALSE, err |-> "Utf8Error"]
        /\ ~p.result.ok => IteratorYieldsTheError(p)

\* C26 with the order of the checks: DeserializationError on a key of fewer
\* than 17 bytes; on a longer key a UTF-8 error when the term bytes are not
\* UTF-8, whatever the delimiter byte is, and DeserializationError when the
\* term bytes are UTF-8 and the byte at offset len - 17 is not 0x00; the
\* iterator yields the failure as an Err item.
C26_MalformedKeyErrorsInCheckOrder ==
    \A i \in DOMAIN key_parsed :
        LET p == key_parsed[i] IN
        /\ Len(p.key) < 17 => p.result = [ok |-> FALSE, err |-> "DeserializationError"]
        /\ (Len(p.key) >= 17 /\ ~TermBytesValid(p.key))
              => p.result = [ok |-> FALSE, err |-> "Utf8Error"]
        /\ (TermBytesValid(p.key) /\ ~DelimiterPresent(p.key))
              => p.result = [ok |-> FALSE, err |-> "DeserializationError"]
        /\ (TermBytesValid(p.key) /\ DelimiterPresent(p.key)) => p.result.ok
        /\ ~p.result.ok => IteratorYieldsTheError(p)

\* C26's case: a stored key whose term bytes are not UTF-8 and whose delimiter
\* is missing was parsed, and the iterator of "a" yields its error
C26_Witness ==
    /\ key_parsed # <<>>
    /\ Len(key_parsed[1].key) >= 17
    /\ ~TermBytesValid(key_parsed[1].key)
    /\ ~DelimiterPresent(key_parsed[1].key)
    /\ PostingListStore_get(<<97>>) # <<>>
    /\ ~PostingListStore_get(<<97>>)[1].ok

\* C27: for terms without 0x00 bytes, key(t1, d1) is below key(t2, d2) in
\* byte order exactly if t1 is below t2 in byte order, or t1 = t2 and
\* d1 < d2 as numbers.
C27_KeyOrderIsTermThenDocId ==
    \A m, n \in keys_made :
        (NulFree(m.term) /\ NulFree(n.term)) =>
            (LexLess(m.key, n.key)
                <=> (LexLess(m.term, n.term) \/ (m.term = n.term /\ m.doc < n.doc)))

\* C27's case: the keys of ("a", 255) and ("a", 256), where the lower id has
\* the greater last byte, and elsewhere the keys of "a" and "ab", where one
\* term is a prefix of the other
C27_Witness ==
    \/ /\ \E m \in keys_made : m.term = <<97>> /\ m.doc = 255
       /\ \E m \in keys_made : m.term = <<97>> /\ m.doc = 256
    \/ /\ \E m \in keys_made : m.term = <<97>> /\ m.doc = 256
       /\ \E m \in keys_made : m.term = <<97, 98>> /\ m.doc = 1

\* the number of 0x00 bytes of the key
ZeroBytes(key) == Cardinality({i \in DOMAIN key : key[i] = 0})

\* C28 as stated: the key of a term without 0x00 bytes holds the byte 0x00
\* exactly once.
C28_OneZeroByte ==
    \A m \in keys_made : NulFree(m.term) => ZeroBytes(m.key) = 1

\* C28 for the bytes up to the delimiter: in the key of a term without 0x00
\* bytes the first 0x00 byte is the delimiter, right after the term; the 16
\* bytes of the id that follow hold 0x00 wherever the id has a zero byte.
C28_FirstZeroByteIsTheDelimiter ==
    \A m \in keys_made :
        NulFree(m.term) =>
            /\ Len(m.key) = Len(m.term) + 17
            /\ m.key[Len(m.term) + 1] = 0
            /\ \A i \in 1..Len(m.term) : m.key[i] # 0
            /\ ZeroBytes(m.key) = 1 + ZeroBytes(to_be_bytes(m.doc))

\* C28's case: the key of the term "ab" and the id 1, whose first fifteen
\* bytes are 0x00
C28_Witness ==
    \E m \in keys_made :
        /\ m.term = <<97, 98>>
        /\ m.doc = 1
        /\ ZeroBytes(m.key) = 16

(***************************************************************************)
(* Properties of the puts of finalize.  write_log holds the puts of the    *)
(* call that is running, or of the last call when none is.                 *)
(***************************************************************************)

\* the places of write_log that hold a put to the store
WritesTo(store) == {i \in DOMAIN write_log : write_log[i].store = store}

\* the keys that write_log holds for the store
KeysWritten(store) == {write_log[i].key : i \in WritesTo(store)}

\* C30: in one add_document call the puts are issued in the order: the
\* DocumentRecord, then every TermRecord of the document, then every posting
\* entry (term, id); no posting entry is put before all the TermRecords are,
\* no TermRecord before the DocumentRecord, and a call that returns Ok has put
\* each of them once.
C30_WritesInOrder ==
    finalizing # <<>> =>
       \A self \in {finalizing[1].self} :
          /\ write_log # <<>> =>
                write_log[1] = [store |-> DocumentStore_with_keyspace,
                                key |-> to_be_bytes(self.id)]
          /\ WritesTo(DocumentStore_with_keyspace) \subseteq {1}
          /\ \A i \in WritesTo(TermStore_with_keyspace),
                j \in WritesTo(PostingListStore_with_keyspace) : i < j
          /\ WritesTo(PostingListStore_with_keyspace) # {} =>
                KeysWritten(TermStore_with_keyspace) = DOMAIN self.terms
          /\ KeysWritten(TermStore_with_keyspace) \subseteq DOMAIN self.terms
          /\ KeysWritten(PostingListStore_with_keyspace) \subseteq
                {make_posting_list_key(term, self.id) : term \in DOMAIN self.doc_terms}
          /\ \A i, j \in DOMAIN write_log : write_log[i] = write_log[j] => i = j
          /\ finalizing[1].returned =>
                Len(write_log) = 1 + Cardinality(DOMAIN self.terms)
                                   + Cardinality(DOMAIN self.doc_terms)

\* C30's case: the second add_document call has put three TermRecords and has
\* gone on to its posting entries
C30_Witness ==
    /\ finalizing # <<>>
    /\ finalizing[1].self.id = 2
    /\ Cardinality(WritesTo(TermStore_with_keyspace)) = 3
    /\ Cardinality(WritesTo(PostingListStore_with_keyspace)) >= 2

(***************************************************************************)
(* Properties of a put of finalize that fails: the `?` after it returns    *)
(* the error from finalize and from add_document.                          *)
(***************************************************************************)

\* the last add_document call has returned an error from finalize
CallFailed ==
    IF finalizing = <<>> \/ added = <<>> THEN FALSE
    ELSE /\ finalizing[1].returned /\ finalizing[1].read
         /\ ~added[1].ok /\ added[1].id # NoId

\* the partition of a store
PartitionOf(store) ==
    IF store = TermStore_with_keyspace THEN term_store
    ELSE IF store = DocumentStore_with_keyspace THEN document_store
    ELSE posting_list_store

\* the value finalize puts under the key of a store
ValuePut(self, store, key) ==
    IF store = TermStore_with_keyspace THEN TermData_serialize(self.terms[key])
    ELSE IF store = DocumentStore_with_keyspace
         THEN DocumentData_serialize([path |-> self.path, length |-> self.length])
    ELSE DocumentTermData_serialize(
             self.doc_terms[parse_posting_list_key(key).term])

\* what holds in a state left by a call whose finalize failed on a put
FailedCallLeavesPrefix ==
    CallFailed =>
       \A self \in {finalizing[1].self} :
          /\ added[1].id = self.id
          /\ added[1].err = "FjallError"
          /\ next_id = self.id + 1
          /\ \A i \in DOMAIN add_log : add_log[i].id < next_id
          /\ Len(write_log) < 1 + Cardinality(DOMAIN self.terms)
                                + Cardinality(DOMAIN self.doc_terms)
          /\ write_log # <<>> =>
                write_log[1] = [store |-> DocumentStore_with_keyspace,
                                key |-> to_be_bytes(self.id)]
          /\ WritesTo(DocumentStore_with_keyspace) \subseteq {1}
          /\ \A i \in WritesTo(TermStore_with_keyspace),
                j \in WritesTo(PostingListStore_with_keyspace) : i < j
          /\ WritesTo(PostingListStore_with_keyspace) # {} =>
                KeysWritten(TermStore_with_keyspace) = DOMAIN self.terms
          /\ \A i, j \in DOMAIN write_log : write_log[i] = write_log[j] => i = j
          /\ \A i \in DOMAIN write_log :
                Partition_get(PartitionOf(write_log[i].store), write_log[i].key)
                    = <<ValuePut(self, write_log[i].store, write_log[i].key)>>
          /\ \A key \in DOMAIN document_store : get_uint(key) <= self.id
          /\ \A key \in DOMAIN posting_list_store :
                parse_posting_list_key(key).doc_id = self.id =>
                    key \in KeysWritten(PostingListStore_with_keyspace)
          /\ Partition_get(document_store, to_be_bytes(self.id)) # <<>> =>
                write_log # <<>>

\* C31: when a put of finalize fails, add_document returns that error and no
\* id; the puts made before it stay in the store, which holds a prefix of the
\* ordered writes of the document and nothing else of it; no write follows
\* the failure, and the id stays consumed: no later call gets it.
C31_FailedFinalizeLeavesPrefix ==
    /\ []FailedCallLeavesPrefix
    /\ [][CallFailed =>
            /\ UNCHANGED store_vars
            /\ next_id' > finalizing[1].self.id
            /\ finalizing' # finalizing =>
                  finalizing'[1].self.id > finalizing[1].self.id]_vars

\* C31's case: the second call failed after its DocumentRecord, all three of
\* its TermRecords and one of its posting entries were put
C31_Witness ==
    /\ CallFailed
    /\ finalizing[1].self.id = 2
    /\ Len(write_log) = 5
    /\ Cardinality(finalizing[1].doc_terms_left) = 2

\* C32: in every state of add_document calls on a store that was empty at
\* first, between the puts of finalize and after a finalize that failed
\* included, every posting entry (t, d) of the store has the DocumentRecord
\* of d and the TermRecord of t in the store.
C32_PostingsHaveTheirRecords ==
    \A key \in DOMAIN posting_list_store :
        \A entry \in {parse_posting_list_key(key)} :
            /\ entry.ok
            /\ Partition_get(document_store, to_be_bytes(entry.doc_id)) # <<>>
            /\ Partition_get(term_store, entry.term) # <<>>

\* C32's case: the first call failed between its posting entries, and the
\* second call is between its posting entries
C32_Witness ==
    /\ ~NoCallRunning
    /\ finalizing[1].self.id = 2
    /\ Len(add_log) = 1
    /\ ~add_log[1].ok
    /\ \E key \in DOMAIN posting_list_store : parse_posting_list_key(key).doc_id = 1
    /\ \E key \in DOMAIN posting_list_store : parse_posting_list_key(key).doc_id = 2
    /\ finalizing[1].doc_terms_left # {}

(***************************************************************************)
(* Properties of the merge loop.                                           *)
(***************************************************************************)
\* the document ids at the heads of the iterators
HeadDocIds(ps) == {Head(ps[i]).doc_id : i \in {j \in DOMAIN ps : ps[j] # <<>>}}

\* a round of the loop was run: the loop is entered again after a scorer call
RoundStep == pc = "loop" /\ pc' = "loop"

\* C33: a round of the merge loop takes one entry off exactly the iterators
\* whose head has the lowest document id among the heads, which is the
\* document it scores; an iterator with a higher head or with none is left
\* as it was.
C33_AdvancesExactlyTheMinimumHeads ==
    [][RoundStep =>
          \A first_doc \in {CHOOSE d \in HeadDocIds(postings) :
                                \A e \in HeadDocIds(postings) : d <= e} :
             /\ score_calls' = Append(score_calls, score_calls'[Len(score_calls')])
             /\ score_calls'[Len(score_calls')].doc_id = first_doc
             /\ DOMAIN postings' = DOMAIN postings
             /\ \A i \in DOMAIN postings :
                   IF postings[i] # <<>> /\ Head(postings[i]).doc_id = first_doc
                   THEN postings'[i] = Tail(postings[i])
                   ELSE postings'[i] = postings[i]]_vars

\* C33's case: after the first round the first iterator has lost its head,
\* the second still has all its entries and a higher head
C33_Witness ==
    /\ pc = "loop"
    /\ Len(score_calls) = 1
    /\ Len(terms) = 2
    /\ Len(postings[1]) + 1 = Len(PostingListStore_get(terms[1]))
    /\ postings[2] # <<>>
    /\ postings[2] = PostingListStore_get(terms[2])
    /\ Head(postings[2]).doc_id > score_calls[1].doc_id

\* The merge specification: posting entries are put while no search runs,
\* then one search runs; the thread that runs it is scheduled again and
\* again, so the step of the loop that can be taken is taken in the end.
NextMerge ==
    \/ PutPosting
    \/ Search
    \/ SearchRound
    \/ SearchFinish

SpecMerge ==
    InitSearch /\ [][NextMerge]_vars /\ WF_vars(SearchRound \/ SearchFinish)

\* the entries the iterators have not yielded yet
RECURSIVE EntriesLeft(_)
EntriesLeft(ps) == IF ps = <<>> THEN 0 ELSE Len(Head(ps)) + EntriesLeft(Tail(ps))

\* C35: the merge loop of a search whose iterators yield no error ends: every
\* round takes the head off at least one iterator, the loop is left when no
\* iterator has a head and only then, and the rounds run are as many as the
\* distinct candidate document ids.
C35_MergeLoopTerminates ==
    /\ (pc = "loop") ~> (pc = "done")
    /\ [][RoundStep => EntriesLeft(postings') < EntriesLeft(postings)]_vars
    /\ [][(pc = "loop" /\ pc' = "done") => HeadDocIds(postings) = {}]_vars
    /\ [][RoundStep => HeadDocIds(postings) # {}]_vars
    /\ [](pc = "done" => Len(score_calls) = Cardinality(Candidates))

\* C35's case: a search of two terms has ended after three rounds, one for
\* each candidate, over more than three posting entries
C35_Witness ==
    /\ pc = "done"
    /\ Len(terms) = 2
    /\ Len(score_calls) = 3
    /\ Cardinality(Candidates) = 3
    /\ Cardinality(DOMAIN posting_list_store) = 4

(***************************************************************************)
(* The concurrent specification: records are put while no search runs,     *)
(* then the threads call search on the one store, their steps interleaved. *)
(* What a call holds is its own: the term data, the iterators, the queue.  *)
(***************************************************************************)
\* the queries "a" and "b a"
ConcurrentQueries == {<< <<97>> >>, << <<98>>, <<97>> >>}
ConcurrentMaxDocs == {1, 2}

\* a put made before any thread has called search
ConcurrentPut ==
    /\ \A p \in Searchers : searchers[p].pc = "idle"
    /\ (PutPosting \/ PutDocument)

\* search of thread p up to the loop
ConcurrentStart(p) ==
    /\ searchers[p].pc = "idle"
    /\ \E query \in ConcurrentQueries, max \in ConcurrentMaxDocs :
          searchers' = [searchers EXCEPT ![p] =
              [pc |-> "loop", terms |-> query, max_docs |-> max,
               term_data |-> [i \in 1..Len(query) |->
                   unwrap_or(TermStore_get(query[i]), TermData_default)],
               postings |-> [i \in 1..Len(query) |-> PostingListStore_get(query[i])],
               top_docs |-> {}, results |-> <<>>]]
    /\ UNCHANGED <<store_vars, search_vars, get_vars, parse_vars, index_vars,
                   record_vars, key_vars, finalize_vars>>

\* a round of thread p that takes the posting entries it has read out of the
\* partition
ConcurrentRound_consuming(p) ==
    /\ searchers[p].pc = "loop"
    /\ LET self == searchers[p]
           found == FindFirstDoc(self.postings, 1, <<>>)
       IN
       /\ found.err = <<>>
       /\ found.first_doc # <<>>
       /\ LET first_doc == found.first_doc[1]
              doc_data == unwrap_or(DocumentStore_get(first_doc), DocumentData_default)
              grabbed == GrabDocTermData(self.postings, 1, first_doc,
                             [err |-> <<>>, doc_term_data |-> <<>>,
                              postings |-> self.postings])
              score == Scorer_score(first_doc, doc_data, self.terms, self.term_data,
                                    grabbed.doc_term_data)
              pushed == PriorityQueue_push(self.top_docs, first_doc, 0 - score)
          IN /\ grabbed.err = <<>>
             /\ \E queue \in (IF Cardinality(pushed) > self.max_docs
                              THEN PriorityQueue_pop(pushed) ELSE {pushed}) :
                   searchers' = [searchers EXCEPT ![p].postings = grabbed.postings,
                                                  ![p].top_docs = queue]
             /\ posting_list_store' =
                    [k \in {key \in DOMAIN posting_list_store :
                               parse_posting_list_key(key).doc_id # first_doc}
                        |-> posting_list_store[k]]
    /\ UNCHANGED <<term_store, document_store, search_vars, get_vars, parse_vars,
                   index_vars, record_vars, key_vars, finalize_vars>>

\* one round of the loop of thread p
ConcurrentRound(p) ==
    /\ searchers[p].pc = "loop"
    /\ LET self == searchers[p]
           found == FindFirstDoc(self.postings, 1, <<>>)
       IN
       /\ found.err = <<>>
       /\ found.first_doc # <<>>
       /\ LET first_doc == found.first_doc[1]
              doc_data == unwrap_or(DocumentStore_get(first_doc), DocumentData_default)
              grabbed == GrabDocTermData(self.postings, 1, first_doc,
                             [err |-> <<>>, doc_term_data |-> <<>>,
                              postings |-> self.postings])
              score == Scorer_score(first_doc, doc_data, self.terms, self.term_data,
                                    grabbed.doc_term_data)
              pushed == PriorityQueue_push(self.top_docs, first_doc, 0 - score)
          IN /\ grabbed.err = <<>>
             /\ \E queue \in (IF Cardinality(pushed) > self.max_docs
                              THEN PriorityQueue_pop(pushed) ELSE {pushed}) :
                   searchers' = [searchers EXCEPT ![p].postings = grabbed.postings,
                                                  ![p].top_docs = queue]
    /\ UNCHANGED <<store_vars, search_vars, get_vars, parse_vars, index_vars,
                   record_vars, key_vars, finalize_vars>>

\* the round of thread p that finds no head: its search returns
ConcurrentFinish(p) ==
    /\ searchers[p].pc = "loop"
    /\ LET found == FindFirstDoc(searchers[p].postings, 1, <<>>) IN
       /\ found.err = <<>>
       /\ found.first_doc = <<>>
    /\ \E sorted \in PriorityQueue_into_sorted_iter(searchers[p].top_docs) :
          searchers' = [searchers EXCEPT
              ![p].results = [i \in 1..Len(sorted) |-> Reverse(sorted)[i][1]],
              ![p].pc = "done"]
    /\ UNCHANGED <<store_vars, search_vars, get_vars, parse_vars, index_vars,
                   record_vars, key_vars, finalize_vars>>

NextConcurrent ==
    \/ ConcurrentPut
    \/ \E p \in Searchers : ConcurrentStart(p)
    \/ \E p \in Searchers : ConcurrentRound(p)
    \/ \E p \in Searchers : ConcurrentFinish(p)

SpecConcurrent == InitSearch /\ [][NextConcurrent]_vars

\* C34: no step of a search call changes any of the three partitions, and
\* with the puts made before the calls, every search call that ran with its
\* steps interleaved with those of another returns a list that the same call
\* returns when it runs alone on the store.
C34_ConcurrentSearchAsAlone ==
    /\ [][searchers' # searchers => UNCHANGED store_vars]_vars
    /\ [](\A p \in Searchers :
             searchers[p].pc = "done" =>
                 searchers[p].results
                     \in search(searchers[p].terms, searchers[p].max_docs))

\* C34's case: thread 1 has returned two documents for one query while
\* thread 2 is in the loop of another query, with one document scored and a
\* head still to read
C34_Witness ==
    /\ searchers[1].pc = "done"
    /\ Len(searchers[1].results) = 2
    /\ searchers[2].pc = "loop"
    /\ searchers[2].terms # searchers[1].terms
    /\ searchers[2].top_docs # {}
    /\ HeadDocIds(searchers[2].postings) # {}

(***************************************************************************)
(* The sub-tokens of a word as a partition of the word.                    *)
(***************************************************************************)
\* the code points of the tokens at the positions from..to, one after another
RECURSIVE TokensJoined(_, _)
TokensJoined(from, to) ==
    IF from > to THEN <<>> ELSE tokens[from].token \o TokensJoined(from + 1, to)

\* C36: the partial tokens emitted for a primary word are none, or two or
\* more slices that are not empty, the first at the offset of the word, each
\* next one at the byte where the one before ends, the last ending where the
\* word ends, so that one after another they are the word exactly.
C36_PartialsPartitionTheWord ==
    parsed =>
        \A k \in DOMAIN tokens : ~tokens[k].partial =>
            \A n \in {Cardinality(PartialsOf(k))} :
                \/ n = 0
                \/ /\ n >= 2
                   /\ \A m \in (k + 1)..(k + n) : tokens[m].token # <<>>
                   /\ tokens[k + 1].offset = tokens[k].offset
                   /\ \A m \in (k + 1)..(k + n - 1) :
                         tokens[m + 1].offset
                             = tokens[m].offset + str_len(tokens[m].token)
                   /\ tokens[k + n].offset + str_len(tokens[k + n].token)
                         = tokens[k].offset + str_len(tokens[k].token)
                   /\ TokensJoined(k + 1, k + n) = tokens[k].token

\* C36's case: a word of an uppercase run of multi-byte code points before a
\* lowercase one has two sub-tokens, and another word of the text has none
C36_Witness ==
    /\ parsed
    /\ \E k \in DOMAIN tokens :
          /\ ~tokens[k].partial
          /\ Cardinality(PartialsOf(k)) = 2
          /\ \E m \in PartialsOf(k) : tokens[m].token = <<220, 252>>
    /\ \E k \in DOMAIN tokens : ~tokens[k].partial /\ PartialsOf(k) = {}

(***************************************************************************)
(* The two maps of the ingestion accumulator.                              *)
(***************************************************************************)
\* the processor of add_document(path, doc) after its first n process_token
\* calls, in_path and in_body being the tokens of the path and of the body:
\* the calls for the tokens of the path come first
ProcessorAfter(id, path, in_path, in_body, n) ==
    LET processor == [DocProcessor_new(id, path) EXCEPT !.in_path = TRUE]
    IN IF n <= Len(in_path)
       THEN ProcessTokens(processor, SubSeq(in_path, 1, n), 1)
       ELSE ProcessTokens([ProcessTokens(processor, in_path, 1) EXCEPT !.in_path = FALSE],
                          SubSeq(in_body, 1, n - Len(in_path)), 1)

\* C37: after every process_token call of add_document the terms map and the
\* doc_terms map have the same keys, and for each key t terms[t].count is
\* doc_terms[t].path_count + doc_terms[t].body_count and
\* terms[t].document_count is 1; when the call has returned Ok and no later
\* call has begun, the count of the TermRecord written for a term is
\* path_count + body_count of the posting entry written for the term and the
\* document.
C37_TermsAndDocTermsAgree ==
    (NoCallRunning /\ added # <<>> /\ added[1].ok) =>
        \A in_path \in {parse_text(added[1].path)} :
        \A in_body \in {parse_text(added[1].body)} :
        \A after \in {[n \in 0..(Len(in_path) + Len(in_body)) |->
                          ProcessorAfter(added[1].id, added[1].path,
                                         in_path, in_body, n)]} :
           /\ \A n \in DOMAIN after :
                 /\ DOMAIN after[n].terms = DOMAIN after[n].doc_terms
                 /\ \A t \in DOMAIN after[n].terms :
                       /\ after[n].terms[t].count
                             = after[n].doc_terms[t].path_count
                                 + after[n].doc_terms[t].body_count
                       /\ after[n].terms[t].document_count = 1
           /\ \A t \in DOMAIN after[Len(in_path) + Len(in_body)].terms :
                 \A posting \in {StoredDocTermData(t, added[1].id)} :
                 \A record \in {TermStore_get(t)} :
                    /\ record # <<>>
                    /\ make_posting_list_key(t, added[1].id) \in DOMAIN posting_list_store
                    /\ record[1].count = posting.path_count + posting.body_count
                    /\ record[1].document_count = 1

\* C37's case: the second document added has the term "a" twice in its path
\* and twice in its body, after a first document that has it in its path
\* alone, and the record written for the term counts four
C37_Witness ==
    /\ NoCallRunning
    /\ added # <<>>
    /\ added[1].ok
    /\ added[1].id = 2
    /\ StoredDocTermData(<<97>>, 1) = [body_count |-> 0, path_count |-> 2]
    /\ StoredDocTermData(<<97>>, 2) = [body_count |-> 2, path_count |-> 2]
    /\ TermStore_get(<<97>>) = <<[count |-> 4, document_count |-> 1]>>

\* the last add_document call made has not got past read_to_string: it is
\* running before the read, or the read failed
NotPastTheRead == IF finalizing = <<>> THEN FALSE ELSE ~finalizing[1].read

\* the last add_document call made failed at read_to_string
ReadFailed ==
    IF finalizing = <<>> THEN FALSE
    ELSE finalizing[1].returned /\ ~finalizing[1].read /\ added[1].id # NoId

\* C38: when the read of the document fails, add_document returns the error
\* with none of the three partitions changed by the call: no step of the call
\* up to the failure changes a partition or puts anything, the store holds
\* nothing of its id, and the id it allocated is used up.
C38_ReadErrorWritesNothing ==
    /\ [](NotPastTheRead =>
            \A id \in {finalizing[1].self.id} :
               /\ write_log = <<>>
               /\ Partition_get(document_store, to_be_bytes(id)) = <<>>
               /\ \A key \in DOMAIN posting_list_store :
                     parse_posting_list_key(key).doc_id # id
               /\ next_id > id)
    /\ [](ReadFailed =>
            /\ added = <<[id |-> finalizing[1].self.id,
                          path |-> finalizing[1].self.path,
                          body |-> <<>>, ok |-> FALSE, err |-> "IoError"]>>
            /\ add_log[Len(add_log)] = added[1])
    /\ [][(IF finalizing' = <<>> THEN FALSE ELSE ~finalizing'[1].read)
            => UNCHANGED store_vars]_vars

\* C38's case: the second call failed at the read, after a first call that
\* wrote its document and its postings; the store holds nothing of the id 2,
\* which is used up
C38_Witness ==
    /\ ReadFailed
    /\ Len(add_log) = 2
    /\ add_log[1].ok
    /\ added[1].id = 2
    /\ next_id = 3
    /\ DOMAIN document_store = {to_be_bytes(1)}
    /\ posting_list_store # <<>>
    /\ \A key \in DOMAIN posting_list_store : parse_posting_list_key(key).doc_id = 1

====
